---- MODULE Spec2Model ----
(***************************************************************************)
(* Bookmark Line with Hotkeys (Obsidian plugin): the bookmark table, the   *)
(* set / remove / jump commands, the vault rename and delete handlers, the *)
(* highlight projector and the list views, as a state machine.             *)
(*                                                                         *)
(* An async handler is cut at its awaits: the code between two awaits is   *)
(* one atomic step (JavaScript runs it to completion), and other handlers  *)
(* may run while a handler waits for a confirmation, a persistence write   *)
(* or a document to open.                                                  *)
(***************************************************************************)
EXTENDS Integers, Sequences, FiniteSets, TLC

\* ---------------------------------------------------------------- bounds
MaxSlot == 2        \* slots 1..MaxSlot (the plugin registers 1..9)
MaxLine == 1        \* cursor lines 0..MaxLine
MaxCh == 1          \* cursor columns 0..MaxCh
MaxLineCount == 2   \* editor.lineCount() is in 0..MaxLineCount
MaxLineLen == 1     \* a line's length is in 0..MaxLineLen
MaxKeys == 4        \* slots 1..MaxKeys where the order of the keys matters
MaxTimeouts == 2      \* setTimeout callbacks pending at once (DOM variant)

Slots == 1..MaxSlot
Files == {"a.md", "b.md"}
Editors == {"e1", "e2"}
Views == {"v1"}
Procs == {"p1", "p2"}

NoFile == ""
NoEditor == ""
NoPos == [line |-> -1, ch |-> -1]
EmptyTable == [s \in {} |-> NoPos]
EmptyLineMap == [l \in {} |-> {}]

Min(a, b) == IF a < b THEN a ELSE b
Max(a, b) == IF a > b THEN a ELSE b

\* ------------------------------------------------------- the bookmark table
\* this.settings.bookmarks: an object keyed by slot; a slot that is not a key
\* is unbound.
Has(bm, slot) == slot \in DOMAIN bm

\* (mutant) the entry keeps the line only: ch is stored as 0
PutBookmarkDropsCh(bm, slot, path, line, ch) ==
    [t \in DOMAIN bm \cup {slot} |->
        IF t = slot THEN [file |-> path, line |-> line, ch |-> 0] ELSE bm[t]]

\* this.settings.bookmarks[slot] = { file, line, ch }
PutBookmark(bm, slot, path, line, ch) ==
    [t \in DOMAIN bm \cup {slot} |->
        IF t = slot THEN [file |-> path, line |-> line, ch |-> ch] ELSE bm[t]]

\* (mutant) the delete takes every entry of the slot's file with it
DeleteBookmarksOfFile(bm, slot) ==
    [t \in {u \in DOMAIN bm : slot \notin DOMAIN bm \/ bm[u].file # bm[slot].file}
        |-> bm[t]]

\* delete this.settings.bookmarks[slot]
DeleteBookmark(bm, slot) == [t \in DOMAIN bm \ {slot} |-> bm[t]]

\* (mutant) the comparison leaves out ch
SamePlaceIgnoresCh(bm, slot, path, line, ch) ==
    /\ slot \in DOMAIN bm
    /\ bm[slot].file = path
    /\ bm[slot].line = line

\* existing && existing.file === file.path && existing.line === cursor.line
\*          && existing.ch === cursor.ch
SamePlace(bm, slot, path, line, ch) ==
    /\ Has(bm, slot)
    /\ bm[slot].file = path
    /\ bm[slot].line = line
    /\ bm[slot].ch = ch

\* (mutant) the loop stops at the first entry it renames
RenameFirstEntry(bm, oldPath, newPath) ==
    LET hits == {u \in DOMAIN bm : bm[u].file = oldPath}
    IN  [t \in DOMAIN bm |->
            IF t \in hits /\ \A u \in hits : t <= u
            THEN [bm[t] EXCEPT !.file = newPath] ELSE bm[t]]

\* handleFileRename's loop: bookmark.file = file.path where it was oldPath
RenameEntries(bm, oldPath, newPath) ==
    [t \in DOMAIN bm |->
        IF bm[t].file = oldPath THEN [bm[t] EXCEPT !.file = newPath] ELSE bm[t]]

\* (mutant) the loop stops at the first entry it deletes
RemoveFirstEntryOf(bm, path) ==
    LET hits == {u \in DOMAIN bm : bm[u].file = path}
    IN  [t \in {u \in DOMAIN bm : u \notin hits \/ \E w \in hits : w < u} |-> bm[t]]

\* handleFileDelete's loop: delete every entry of the file
RemoveEntriesOf(bm, path) ==
    [t \in {u \in DOMAIN bm : bm[u].file # path} |-> bm[t]]

\* ------------------------------------------------------ position resolution
\* (mutant) the upper bound is lineCount - 1 also for an empty document
ResolveLineNoFloor(line, lineCount) ==
    IF (IF line > 0 THEN line ELSE 0) < lineCount - 1
    THEN (IF line > 0 THEN line ELSE 0) ELSE lineCount - 1

\* goToBookmark: Math.min(Math.max(bookmark.line, 0), Math.max(lineCount - 1, 0))
ResolveLine(line, lineCount) == Min(Max(line, 0), Max(lineCount - 1, 0))

\* editor.getLine(line)?.length ?? 0: a line the document does not have is
\* undefined and counts as length 0.
LineLength(line, lineCount, len) == IF line < lineCount THEN len ELSE 0

\* goToBookmark: Math.min(Math.max(bookmark.ch, 0), lineLength)
ResolveCh(ch, lineLength) == Min(Max(ch, 0), lineLength)

\* ------------------------------------------------------ highlight projector
\* A highlight state is [last, maps, applied, calls]: lastHighlightedEditor,
\* the lineHighlights map (editor -> line -> slots), per editor the
\* (line, class) pairs the editor carries, and the addLineClass and
\* removeLineClass calls the step has made so far, as <<editor, "add" or
\* "remove", line, class>>; class 0 is bookmark-line-highlight and class s is
\* bookmark-line-highlight-slot-s.
ClassesOf(lineMap) ==
    {<<l, 0>> : l \in DOMAIN lineMap}
      \cup UNION {{<<l, s>> : s \in lineMap[l]} : l \in DOMAIN lineMap}

\* this.lineHighlights.get(editor) ?? new Map()
LineMapOf(H, ed) == IF ed \in DOMAIN H.maps THEN H.maps[ed] ELSE EmptyLineMap

DropMap(maps, ed) == [e \in DOMAIN maps \ {ed} |-> maps[e]]

CallsOn(ed, what, classes) == {<<ed, what, x[1], x[2]>> : x \in classes}

\* (mutant) the map is forgotten and the classes are left on the lines
clearForgetsClasses(H, ed, kind) ==
    [last |-> H.last, maps |-> DropMap(H.maps, ed), applied |-> H.applied,
     calls |-> H.calls]

clearLineHighlights(H, ed, kind) ==
    LET legacy == kind = "cm5" /\ ed \in DOMAIN H.maps IN
    [last |-> H.last,
     maps |-> DropMap(H.maps, ed),
     applied |-> [H.applied EXCEPT ![ed] =
        IF legacy THEN @ \ ClassesOf(H.maps[ed])
        ELSE IF kind = "cm6" THEN {}
        ELSE @],
     calls |-> IF legacy
               THEN H.calls \cup CallsOn(ed, "remove", ClassesOf(H.maps[ed]))
               ELSE H.calls]

\* (mutant) the stored line is used as it is
BuildLineMapUnclamped(bm, path, lineCount) ==
    LET matching == {s \in DOMAIN bm : bm[s].file = path}
    IN  [l \in {bm[s].line : s \in matching} |-> {s \in matching : bm[s].line = l}]

\* the loop of applyLineHighlights that groups the file's slots by safe line
BuildLineMap(bm, path, lineCount) ==
    LET matching == {s \in DOMAIN bm : bm[s].file = path}
        safe(s) == Min(Max(bm[s].line, 0), Max(lineCount - 1, 0))
    IN  [l \in {safe(s) : s \in matching} |-> {s \in matching : safe(s) = l}]

\* (mutant) every class of the new map is added again, whatever was there
CM5AddedAll(lineMap, prev) == ClassesOf(lineMap)

\* applyLineHighlightsCM5, first loop: the addLineClass calls
CM5Added(lineMap, prev) ==
    {<<l, 0>> : l \in DOMAIN lineMap \ DOMAIN prev}
      \cup UNION {{<<l, s>> : s \in lineMap[l] \ (IF l \in DOMAIN prev THEN prev[l] ELSE {})}
                    : l \in DOMAIN lineMap}

\* applyLineHighlightsCM5, second loop: the removeLineClass calls
CM5Removed(lineMap, prev) ==
    {<<l, 0>> : l \in DOMAIN prev \ DOMAIN lineMap}
      \cup UNION {{<<l, s>> : s \in prev[l] \ (IF l \in DOMAIN lineMap THEN lineMap[l] ELSE {})}
                    : l \in DOMAIN prev}

applyLineHighlightsCM5(classes, lineMap, prev) ==
    (classes \cup CM5Added(lineMap, prev)) \ CM5Removed(lineMap, prev)

\* applyLineHighlights after the clearing of the editor highlighted last (H1)
applyOnto(H1, ed, path, bm, lineCount, kind, prev) ==
    LET lineMap == BuildLineMap(bm, path, lineCount)
    IN  IF kind = "none"
        THEN [H1 EXCEPT !.maps = DropMap(H1.maps, ed)]
        ELSE IF DOMAIN lineMap = {}
        THEN [clearLineHighlights(H1, ed, kind) EXCEPT !.last = ed]
        ELSE [last |-> ed,
              maps |-> [e \in DOMAIN H1.maps \cup {ed} |->
                            IF e = ed THEN lineMap ELSE H1.maps[e]],
              applied |-> [H1.applied EXCEPT ![ed] =
                            IF kind = "cm5"
                            THEN applyLineHighlightsCM5(@, lineMap, prev)
                            ELSE ClassesOf(lineMap)],
              calls |-> IF kind = "cm5"
                        THEN H1.calls
                               \cup CallsOn(ed, "add", CM5Added(lineMap, prev))
                               \cup CallsOn(ed, "remove", CM5Removed(lineMap, prev))
                        ELSE H1.calls]

\* (mutant) the editor highlighted last is not cleared
applyLineHighlightsKeepsLast(H, ed, path, bm, lineCount, kind) ==
    applyOnto(H, ed, path, bm, lineCount, kind, LineMapOf(H, ed))

\* applyLineHighlights(editor, file), the editor reporting lineCount lines:
\* previousLineMap is read first, then the editor highlighted last is cleared
\* when it is another one.
applyLineHighlights(H, ed, path, bm, lineCount, kind) ==
    applyOnto(IF H.last # NoEditor /\ H.last # ed
              THEN clearLineHighlights(H, H.last, kind) ELSE H,
              ed, path, bm, lineCount, kind, LineMapOf(H, ed))

\* (mutant) the editor highlighted last is cleared and still remembered
refreshKeepsLast(H, ed, path, bm, lineCount, kind) ==
    IF path = NoFile
    THEN IF H.last # NoEditor THEN clearLineHighlights(H, H.last, kind) ELSE H
    ELSE applyLineHighlights(H, ed, path, bm, lineCount, kind)

\* refreshEditorHighlights: path is the file of the active markdown view, or
\* NoFile when there is no such view or it has no file.
refreshEditorHighlights(H, ed, path, bm, lineCount, kind) ==
    IF path = NoFile
    THEN IF H.last # NoEditor
         THEN [clearLineHighlights(H, H.last, kind) EXCEPT !.last = NoEditor]
         ELSE H
    ELSE applyLineHighlights(H, ed, path, bm, lineCount, kind)

\* ------------------------------------------------------ getSortedBookmarks
\* Object.entries(this.settings.bookmarks) lists the keys of the table in the
\* engine's property order; any order of the keys is taken here.
KeyOrders(bm) ==
    {o \in [1..Cardinality(DOMAIN bm) -> DOMAIN bm] :
        \A i, j \in DOMAIN o : i # j => o[i] # o[j]}

\* (mutant) no comparison: the element goes to the front
InsertFirst(x, seq) == <<x>> \o seq

\* Array.prototype.sort with (a, b) => Number(a[0]) - Number(b[0]) is a stable
\* sort on the numeric key: x goes behind the elements not greater than it.
InsertSorted(x, seq) ==
    LET k == Cardinality({i \in DOMAIN seq : seq[i] <= x}) IN
    SubSeq(seq, 1, k) \o <<x>> \o SubSeq(seq, k + 1, Len(seq))

RECURSIVE SortKeys(_)
SortKeys(keys) ==
    IF keys = <<>> THEN <<>>
    ELSE InsertSorted(keys[Len(keys)], SortKeys(SubSeq(keys, 1, Len(keys) - 1)))

\* getSortedBookmarks(), the entries listed in the order `order`: the pairs
\* [slot, entry]
getSortedBookmarks(bm, order) ==
    LET keys == SortKeys(order) IN [i \in DOMAIN keys |-> <<keys[i], bm[keys[i]]>>]

\* ------------------------------------------------------------- list views
\* A view state is [promise, shown, running, asked]: per view its
\* renderPromise (busy with the table render() read at its start, or not
\* busy; missed: a requestRender found it busy and started nothing), the
\* table its container shows, and the number of render() calls that have not
\* ended; asked is the set of views whose requestRender the step has called.
NoRender == [busy |-> FALSE, snap |-> EmptyTable, missed |-> FALSE]

\* render() up to its first await: it empties the container and reads the
\* table; it awaits (a preview read) only for a bookmark whose file exists,
\* and otherwise ends in the same step. The preview reads of one render are
\* taken as one await.
render(R, v, bm, vlt) ==
    IF \E s \in DOMAIN bm : bm[s].file \in vlt
    THEN [R EXCEPT !.promise[v] = [busy |-> TRUE, snap |-> bm, missed |-> FALSE],
                   !.shown[v] = EmptyTable,
                   !.running[v] = @ + 1,
                   !.asked = @ \cup {v}]
    ELSE [R EXCEPT !.promise[v] = NoRender, !.shown[v] = bm, !.asked = @ \cup {v}]

\* (mutant) the check of renderPromise is missing: every request renders
requestRenderUnguarded(R, v, bm, vlt) == render(R, v, bm, vlt)

\* BookmarkListView.requestRender: a render is started only when none is in
\* flight; otherwise the promise in flight is returned and nothing else done.
requestRender(R, v, bm, vlt) ==
    IF R.promise[v].busy
    THEN [R EXCEPT !.promise[v].missed = TRUE, !.asked = @ \cup {v}]
    ELSE render(R, v, bm, vlt)

\* requestRender on every view of vs
RequestAll(R, vs, bm, vlt) ==
    [promise |-> [v \in Views |->
        IF v \in vs THEN requestRender(R, v, bm, vlt).promise[v] ELSE R.promise[v]],
     shown |-> [v \in Views |->
        IF v \in vs THEN requestRender(R, v, bm, vlt).shown[v] ELSE R.shown[v]],
     running |-> [v \in Views |->
        IF v \in vs THEN requestRender(R, v, bm, vlt).running[v] ELSE R.running[v]],
     asked |-> R.asked \cup UNION {requestRender(R, v, bm, vlt).asked : v \in vs}]

\* (mutant) the loop runs over every view there is, closed ones too
notifyEveryView(R, views, bm, vlt) == RequestAll(R, Views, bm, vlt)

\* notifyBookmarkViews: for (const view of this.bookmarkViews) view.requestRender()
notifyBookmarkViews(R, views, bm, vlt) == RequestAll(R, views, bm, vlt)

\* -------------------------------------------------------------------- state
VARIABLES
    bookmarks,              \* this.settings.bookmarks
    disk,                   \* the table last written by saveData
    vault,                  \* the paths getAbstractFileByPath resolves to a TFile
    edFile,                 \* per editor (pane): the file of its markdown view, or NoFile
    activeEd,               \* the editor of the active pane
    edKind,                 \* "cm5", "cm6" or "none": what editor.cm ?? editor.view is
    lastHighlightedEditor,  \* this.lastHighlightedEditor
    lineHighlights,         \* this.lineHighlights
    applied,                \* per editor: the (line, class) pairs it carries
    bookmarkViews,          \* this.bookmarkViews
    renderPromise,          \* per view: BookmarkListView.renderPromise
    shown,                  \* per view: the table its container shows
    rendering,              \* per view: the render() calls that have not ended
    ribbonIcons,            \* ribbon variant: per slot, whether its icon is displayed
    timeouts,               \* DOM variant: the setTimeout callbacks that have not fired
    proc,                   \* the handlers in flight, each at one of its awaits
    ev                      \* the step just taken: what ran, on what, with which effects

variantVars == <<edKind, ribbonIcons, timeouts>>
hostVars == <<vault, edFile, activeEd, variantVars>>
hlVars == <<lastHighlightedEditor, lineHighlights, applied>>
viewVars == <<bookmarkViews, renderPromise, shown, rendering>>
vars == <<bookmarks, disk, hostVars, hlVars, viewVars, proc, ev>>

HL == [last |-> lastHighlightedEditor, maps |-> lineHighlights, applied |-> applied,
       calls |-> {}]
RV == [promise |-> renderPromise, shown |-> shown, running |-> rendering,
       asked |-> {}]

SetHighlights(H) ==
    /\ lastHighlightedEditor' = H.last
    /\ lineHighlights' = H.maps
    /\ applied' = H.applied

SetViews(R) ==
    /\ renderPromise' = R.promise
    /\ shown' = R.shown
    /\ rendering' = R.running
    /\ UNCHANGED bookmarkViews

\* A handler in flight: where it waits (pc), which handler it is (op), and the
\* locals it keeps across the await: slot, the Notice it will show (note), the
\* table saveData was called with (snap), the position (src), file and leaf
\* (ed) it works on.
Idle == [pc |-> "idle", op |-> "", slot |-> 0, note |-> "", snap |-> EmptyTable,
         src |-> NoPos, file |-> NoFile, ed |-> NoEditor]

\* ev.op names the step (ev.of: the handler it belongs to) and ev.fx lists, in
\* order, what the step did outside the table: "confirm" (a confirmation is
\* requested and awaited), "save" (saveData is called and awaited), "open"
\* (leaf.openFile is called and awaited), "notice:..." (a Notice), "setCursor",
\* "scroll", "refresh" (refreshEditorHighlights), "apply" (applyLineHighlights),
\* "notify" (notifyBookmarkViews), "render" (requestRender). ev.pre is the table
\* before the step and, for a completed write, ev.was what was on disk before
\* it; ev.asked is the set of views whose requestRender the step called and,
\* for a render that ended, ev.missed whether it had absorbed a request; for
\* a change of the active pane, ev.lit the editors that carried highlights; for
\* a projection onto a legacy editor, ev.calls its addLineClass and
\* removeLineClass calls and ev.prev the line map the editor had; for a load,
\* ev.data what loadData returned; for a call of getSortedBookmarks, ev.order
\* the order of the keys and ev.sorted the result; for a render that ended,
\* ev.was the table it had read and ev.items the items it built; file, to, pos, src, lc, ll
\* are the step's inputs and outputs.
E0 == [op |-> "", of |-> "", slot |-> 0, fx |-> <<>>, pre |-> bookmarks,
       was |-> EmptyTable, asked |-> {}, missed |-> FALSE, lit |-> {},
       calls |-> {}, prev |-> EmptyLineMap, order |-> <<>>, sorted |-> <<>>,
       data |-> [none |-> TRUE], items |-> EmptyTable, file |-> NoFile, to |-> NoFile, pos |-> NoPos,
       src |-> NoPos, lc |-> -1, ll |-> -1]

Range(q) == {q[i] : i \in 1..Len(q)}
In(x, fx) == x \in Range(fx)

ActiveFile == edFile[activeEd]

\* Where the handler of process p goes after a step with effects fx: to the
\* await the step ended in (with its locals rec), or to its end.
Await(p, rec, fx, bm) ==
    proc' = [proc EXCEPT ![p] =
        IF In("confirm", fx) THEN [rec EXCEPT !.pc = "confirm"]
        ELSE IF In("save", fx) THEN [rec EXCEPT !.pc = "save", !.snap = bm]
        ELSE IF In("open", fx) THEN [rec EXCEPT !.pc = "open"]
        ELSE Idle]

\* What the effects fx of a step do to the highlights and the views, on the
\* table bm, the panes eds, the vault vlt, the active editor reporting
\* lineCount lines.
Project(fx, bm, eds, vlt, lineCount) ==
    /\ SetHighlights(IF In("refresh", fx)
                     THEN refreshEditorHighlights(HL, activeEd, eds[activeEd], bm,
                                                  lineCount, edKind)
                     ELSE HL)
    /\ SetViews(IF In("notify", fx)
                THEN notifyBookmarkViews(RV, bookmarkViews, bm, vlt)
                ELSE RV)

\* The addLineClass and removeLineClass calls of a step with effects fx (only
\* a legacy editor is called line by line).
Calls(fx, bm, eds, lineCount) ==
    IF edKind = "cm5" /\ In("refresh", fx)
    THEN refreshEditorHighlights(HL, activeEd, eds[activeEd], bm, lineCount, edKind).calls
    ELSE {}

\* The line map a legacy editor has before a step projects onto it.
PrevMap(ed) == IF edKind = "cm5" THEN LineMapOf(HL, ed) ELSE EmptyLineMap

\* The views whose requestRender a step with effects fx calls.
Asked(fx, bm, vlt) ==
    IF In("notify", fx) THEN notifyBookmarkViews(RV, bookmarkViews, bm, vlt).asked
    ELSE {}

\* The tables loadSettings can find on disk with slots of S bound: what an
\* earlier session saved.
Entries == [file : Files, line : 0..MaxLine, ch : 0..MaxCh]
Tables(S) == UNION {[T -> Entries] : T \in SUBSET S}

\* What loadData can return when data.json was not written by this code (an
\* edited or foreign file): a key that is no slot of a command (0) and
\* negative numbers. loadSettings merges whatever it gets.
RawEntries == [file : {"a.md"}, line : -1..0, ch : -1..0]
RawTables == UNION {[T -> RawEntries] : T \in SUBSET {0, 1}}

\* ------------------------------------------------------------ loadSettings
\* What loadData() returns: null when there is no data.json, else the object
\* parsed from it, with or without a bookmarks key.
NullData == [null |-> TRUE]
NoKeyData == [other |-> 0]

\* JSON.stringify of the settings saveData is given: the members of the
\* bookmarks object, each a key with its file, line and ch.
JSONStringify(settings) ==
    [bookmarks |-> {<<k, settings.bookmarks[k].file, settings.bookmarks[k].line,
                      settings.bookmarks[k].ch>> : k \in DOMAIN settings.bookmarks}]

\* JSON.parse of the text of data.json
JSONParse(text) ==
    [bookmarks |->
        [k \in {m[1] : m \in text.bookmarks} |->
            LET m == CHOOSE m \in text.bookmarks : m[1] = k
            IN  [file |-> m[2], line |-> m[3], ch |-> m[4]]]]

\* this.loadData() when data.json holds the settings saved with table onDisk
loadData(onDisk) == JSONParse(JSONStringify([bookmarks |-> onDisk]))

\* data?.bookmarks ?? {}
bookmarksOf(data) ==
    IF data = NullData \/ "bookmarks" \notin DOMAIN data THEN EmptyTable
    ELSE data.bookmarks

\* (mutant) the arguments are swapped: the default wins over what was loaded
ObjectAssignKeepsTarget(target, source) ==
    [k \in DOMAIN target |-> target[k]]

\* Object.assign({}, target, source): the keys of both, source's values first
ObjectAssign(target, source) ==
    [k \in DOMAIN target \cup DOMAIN source |->
        IF k \in DOMAIN source THEN source[k] ELSE target[k]]

DEFAULT_SETTINGS == [bookmarks |-> EmptyTable]

\* loadSettings: this.settings.bookmarks after it
loadSettings(data) == ObjectAssign(DEFAULT_SETTINGS.bookmarks, bookmarksOf(data))

\* The state after onload: the table is the persisted one, one of T
\* (loadSettings copies data.bookmarks key by key, unchecked), of which the
\* vault may have lost files since; no view is open, nothing is highlighted;
\* editor.cm ?? editor.view is of the given kind in every pane.
LoadedFrom(D, kind, V) ==
    \E data \in D :
        /\ disk = bookmarksOf(data)
        /\ bookmarks = loadSettings(data)
        /\ vault \in V
        /\ edFile = [e \in Editors |-> NoFile]
        /\ activeEd = "e1"
        /\ edKind = kind
        /\ ribbonIcons = [s \in {} |-> FALSE]
        /\ timeouts = {}
        /\ lastHighlightedEditor = NoEditor
        /\ lineHighlights = [e \in {} |-> EmptyLineMap]
        /\ applied = [e \in Editors |-> {}]
        /\ bookmarkViews = {}
        /\ renderPromise = [v \in Views |-> NoRender]
        /\ shown = [v \in Views |-> EmptyTable]
        /\ rendering = [v \in Views |-> 0]
        /\ proc = [p \in Procs |-> Idle]
        /\ ev = [E0 EXCEPT !.op = "load", !.data = data]

\* data.json holds one of the tables of T; any of the files may exist.
LoadedKind(T, kind) == LoadedFrom({loadData(t) : t \in T}, kind, SUBSET Files)

\* The editors are CodeMirror 6 views.
LoadedData(T) == LoadedKind(T, "cm6")

\* data.json as an earlier session of this code saved it, slots of S bound
Loaded(S) == LoadedData(Tables(S))

Init == Loaded(Slots)

\* ----------------------------------------------------------------- commands
\* (mutant) the view's file is not checked
setBookmarkTableAnyView(bm, slot, path, line, ch) ==
    IF ~SamePlace(bm, slot, path, line, ch)
    THEN PutBookmark(bm, slot, path, line, ch)
    ELSE bm

\* setBookmark up to its first await (with the editorCallback's check): what
\* it does to the table, and its effects. path is view.file?.path.
setBookmarkTable(bm, slot, path, line, ch) ==
    IF path # NoFile /\ ~SamePlace(bm, slot, path, line, ch)
    THEN PutBookmark(bm, slot, path, line, ch)
    ELSE bm

\* (mutant) the refresh and the notification run before the write is awaited
setBookmarkFxRefreshFirst(bm, slot, path, line, ch) ==
    IF path = NoFile THEN <<"notice:nofile">>
    ELSE IF SamePlace(bm, slot, path, line, ch) THEN <<"confirm">>
    ELSE <<"refresh", "notify", "save">>

setBookmarkFx(bm, slot, path, line, ch) ==
    IF path = NoFile THEN <<"notice:nofile">>
    ELSE IF SamePlace(bm, slot, path, line, ch) THEN <<"confirm">>
    ELSE <<"save">>

\* set-bookmark-<slot> with the cursor of the active editor at (line, ch)
SetBookmark(p, slot, line, ch) ==
    LET fx == setBookmarkFx(bookmarks, slot, ActiveFile, line, ch) IN
    /\ proc[p].pc = "idle"
    /\ bookmarks' = setBookmarkTable(bookmarks, slot, ActiveFile, line, ch)
    /\ Await(p, [Idle EXCEPT !.op = "set", !.slot = slot,
                             !.note = IF Has(bookmarks, slot) THEN "updated" ELSE "saved",
                             !.file = ActiveFile,
                             !.src = [line |-> line, ch |-> ch]],
             fx, bookmarks')
    /\ ev' = [E0 EXCEPT !.op = "set", !.of = "set", !.slot = slot, !.fx = fx,
                        !.file = ActiveFile, !.pos = [line |-> line, ch |-> ch]]
    /\ UNCHANGED <<disk, hostVars, hlVars, viewVars>>

\* removeBookmark up to its first await
removeBookmarkFx(bm, slot) == IF Has(bm, slot) THEN <<"confirm">> ELSE <<>>

\* removeBookmark(slot): the remove button of a list item
RemoveBookmark(p, slot) ==
    LET fx == removeBookmarkFx(bookmarks, slot) IN
    /\ proc[p].pc = "idle"
    /\ Await(p, [Idle EXCEPT !.op = "remove", !.slot = slot], fx, bookmarks)
    /\ ev' = [E0 EXCEPT !.op = "remove", !.of = "remove", !.slot = slot, !.fx = fx]
    /\ UNCHANGED <<bookmarks, disk, hostVars, hlVars, viewVars>>

\* (mutant) the confirmed branch forgets the delete
confirmedTableKeeps(bm, slot, confirmed) == bm

\* (mutant) the answer is not looked at: the slot is deleted either way
confirmedTableIgnoresAnswer(bm, slot, confirmed) == DeleteBookmark(bm, slot)

\* setBookmark and removeBookmark after the confirmation: if (!confirmed)
\* return; delete this.settings.bookmarks[slot]; await this.saveSettings()
confirmedTable(bm, slot, confirmed) ==
    IF confirmed THEN DeleteBookmark(bm, slot) ELSE bm

confirmedFx(confirmed) == IF confirmed THEN <<"save">> ELSE <<>>

\* The modal's Remove (confirmed) or Cancel button resolves the confirmation.
ConfirmResolve(p, confirmed) ==
    LET fx == confirmedFx(confirmed) IN
    /\ proc[p].pc = "confirm"
    /\ bookmarks' = confirmedTable(bookmarks, proc[p].slot, confirmed)
    /\ Await(p, [proc[p] EXCEPT !.note = "removed"], fx, bookmarks')
    /\ ev' = [E0 EXCEPT !.op = IF confirmed THEN "confirm:yes" ELSE "confirm:no",
                        !.of = proc[p].op, !.slot = proc[p].slot, !.fx = fx,
                        !.file = IF confirmed THEN proc[p].file ELSE NoFile,
                        !.pos = IF confirmed THEN proc[p].src ELSE NoPos]
    /\ UNCHANGED <<disk, hostVars, hlVars, viewVars>>

\* The modal is closed without a button (onClose does not call resolve): the
\* promise stays pending and the handler never runs again.
ConfirmDismiss(p) ==
    /\ proc[p].pc = "confirm"
    /\ proc' = [proc EXCEPT ![p] = Idle]
    /\ ev' = [E0 EXCEPT !.op = "confirm:dismiss", !.of = proc[p].op,
                        !.slot = proc[p].slot]
    /\ UNCHANGED <<bookmarks, disk, hostVars, hlVars, viewVars>>

\* A handler after await this.saveSettings(): the Notice (setBookmark and
\* removeBookmark only), refreshEditorHighlights, notifyBookmarkViews.
savedFx(note) ==
    IF note = "" THEN <<"refresh", "notify">>
    ELSE <<"notice:" \o note, "refresh", "notify">>

\* (mutant) the write merges into data.json: a key the table no longer has
\* stays on disk
saveDataMerges(onDisk, snap) ==
    [s \in DOMAIN onDisk \cup DOMAIN snap |->
        IF s \in DOMAIN snap THEN snap[s] ELSE onDisk[s]]

\* this.saveData(this.settings): data.json is replaced by the table passed
saveData(onDisk, snap) == snap

\* saveData completes: the table it was called with is on disk.
SaveDone(p, lineCount) ==
    LET fx == savedFx(proc[p].note) IN
    /\ proc[p].pc = "save"
    /\ disk' = saveData(disk, proc[p].snap)
    /\ Project(fx, bookmarks, edFile, vault, lineCount)
    /\ Await(p, proc[p], fx, bookmarks)
    /\ ev' = [E0 EXCEPT !.op = "save:done", !.of = proc[p].op, !.slot = proc[p].slot,
                        !.fx = fx, !.file = proc[p].file, !.pos = proc[p].src,
                        !.lc = lineCount, !.was = disk,
                        !.asked = Asked(fx, bookmarks, vault),
                        !.calls = Calls(fx, bookmarks, edFile, lineCount),
                        !.prev = PrevMap(activeEd)]
    /\ UNCHANGED <<bookmarks, hostVars>>

\* (mutant) a failed write puts the table back to what is on disk
failedTableRollsBack(bm, onDisk) == onDisk

\* No handler catches a rejection of saveSettings: the table stays as the
\* handler left it.
failedTable(bm, onDisk) == bm

\* saveData rejects (the write failed): the await throws, the rest of the
\* handler (Notice, refresh, notification) is skipped, and nothing is on disk.
SaveFailed(p) ==
    /\ proc[p].pc = "save"
    /\ bookmarks' = failedTable(bookmarks, disk)
    /\ proc' = [proc EXCEPT ![p] = Idle]
    /\ ev' = [E0 EXCEPT !.op = "save:failed", !.of = proc[p].op, !.slot = proc[p].slot,
                        !.file = proc[p].file,
                        !.pos = IF proc[p].note = "removed" THEN NoPos ELSE proc[p].src]
    /\ UNCHANGED <<disk, hostVars, hlVars, viewVars>>

\* (mutant) the lookup's result is not checked
FileExistsUnchecked(vlt, path) == TRUE

\* target instanceof TFile, for target = getAbstractFileByPath(path)
FileExists(vlt, path) == path \in vlt

\* (mutant) the check for an unbound slot is missing
goToBookmarkFxNoUnboundCheck(bm, vlt, slot) ==
    IF slot \in DOMAIN bm /\ bm[slot].file \notin vlt THEN <<"notice:missing">>
    ELSE <<"open">>

\* goToBookmark up to its await of leaf.openFile
goToBookmarkFx(bm, vlt, slot) ==
    IF ~Has(bm, slot) THEN <<"notice:notset">>
    ELSE IF ~FileExists(vlt, bm[slot].file) THEN <<"notice:missing">>
    ELSE <<"open">>

\* jump-to-bookmark-<slot>. The handler keeps the entry it read (bookmark) and
\* the leaf it opens the file in.
GoToBookmark(p, slot) ==
    LET fx == goToBookmarkFx(bookmarks, vault, slot) IN
    /\ proc[p].pc = "idle"
    /\ Await(p, IF Has(bookmarks, slot)
                THEN [Idle EXCEPT !.op = "jump", !.slot = slot,
                                  !.src = [line |-> bookmarks[slot].line,
                                           ch |-> bookmarks[slot].ch],
                                  !.file = bookmarks[slot].file, !.ed = activeEd]
                ELSE Idle,
             fx, bookmarks)
    /\ ev' = [E0 EXCEPT !.op = "jump", !.of = "jump", !.slot = slot, !.fx = fx]
    /\ UNCHANGED <<bookmarks, disk, hostVars, hlVars, viewVars>>

\* goToBookmark after await leaf.openFile(target)
openedFx(hasView) ==
    IF hasView THEN <<"setCursor", "scroll", "refresh", "notify">>
    ELSE <<"notice:noeditor">>

\* (mutant) the resolved position is written back to the entry
openedTableWritesBack(bm, slot, pos) ==
    IF slot \in DOMAIN bm
    THEN [bm EXCEPT ![slot].line = pos.line, ![slot].ch = pos.ch]
    ELSE bm

\* (mutant) the jump consumes the bookmark
openedTableDropsEntry(bm, slot, pos) == [t \in DOMAIN bm \ {slot} |-> bm[t]]

\* goToBookmark only reads bookmark.line and bookmark.ch: the resolved
\* position goes to the local `position`, and the table stays as it is.
openedTable(bm, slot, pos) == bm

\* The position goToBookmark puts the cursor at, for the entry's (line, ch),
\* an editor of lineCount lines whose resolved line has length len.
ResolvePosition(src, lineCount, len) ==
    LET line == ResolveLine(src.line, lineCount) IN
    [line |-> line, ch |-> ResolveCh(src.ch, LineLength(line, lineCount, len))]

\* leaf.openFile completes. hasView: the leaf now holds a markdown view;
\* lineCount and len are what its editor reports.
JumpOpened(p, hasView, lineCount, len) ==
    LET fx == openedFx(hasView)
        pos == ResolvePosition(proc[p].src, lineCount, len)
    IN
    /\ proc[p].pc = "open"
    /\ FileExists(vault, proc[p].file)
    /\ edFile' = [edFile EXCEPT ![proc[p].ed] = IF hasView THEN proc[p].file ELSE NoFile]
    /\ bookmarks' = IF hasView THEN openedTable(bookmarks, proc[p].slot, pos)
                    ELSE bookmarks
    /\ Project(fx, bookmarks', edFile', vault, lineCount)
    /\ Await(p, proc[p], fx, bookmarks')
    /\ ev' = [E0 EXCEPT !.op = IF hasView THEN "jump:opened" ELSE "jump:noview",
                        !.of = "jump", !.slot = proc[p].slot, !.fx = fx,
                        !.file = proc[p].file, !.src = proc[p].src,
                        !.pos = IF In("setCursor", fx) THEN pos ELSE NoPos,
                        !.lc = lineCount, !.ll = len,
                        !.asked = Asked(fx, bookmarks', vault),
                        !.calls = Calls(fx, bookmarks', edFile', lineCount),
                        !.prev = PrevMap(activeEd)]
    /\ UNCHANGED <<disk, vault, activeEd, variantVars>>

\* The file was deleted while it was being opened: openFile rejects and the
\* handler ends there.
JumpFailed(p) ==
    /\ proc[p].pc = "open"
    /\ ~FileExists(vault, proc[p].file)
    /\ proc' = [proc EXCEPT ![p] = Idle]
    /\ ev' = [E0 EXCEPT !.op = "jump:failed", !.of = "jump", !.slot = proc[p].slot,
                        !.file = proc[p].file]
    /\ UNCHANGED <<bookmarks, disk, hostVars, hlVars, viewVars>>

\* ----------------------------------------------------------------- previews
\* What getBookmarkPreview hands to render: null, or the trimmed text of a
\* line. The text of line i of a document is [kind |-> "text", line |-> i];
\* line -1 stands for the empty string (shown as "(blank line)").
NoPreview == [kind |-> "null", line |-> -1]
BlankLine == [kind |-> "text", line |-> -1]
Thrown == [kind |-> "throw", line |-> -1]
FileNotFound == [kind |-> "notfound", line |-> -1]

\* (mutant) the read is not in a try block: its failure is thrown on
getBookmarkPreviewThrows(entry, vlt, lineCount, readOk) ==
    IF ~FileExists(vlt, entry.file) THEN NoPreview
    ELSE IF ~readOk THEN Thrown
    ELSE IF entry.line \in 0..(lineCount - 1)
         THEN [kind |-> "text", line |-> entry.line]
         ELSE BlankLine

\* getBookmarkPreview(entry): the file has lineCount lines (content.split
\* gives at least one) and cachedRead succeeds or not; lines[entry.line] is
\* undefined outside 0..lineCount-1, which gives ''.
getBookmarkPreview(entry, vlt, lineCount, readOk) ==
    IF ~FileExists(vlt, entry.file) THEN NoPreview
    ELSE IF ~readOk THEN NoPreview
    ELSE IF entry.line \in 0..(lineCount - 1)
         THEN [kind |-> "text", line |-> entry.line]
         ELSE BlankLine

\* The item render() builds for slot s of the table snap it read: for a
\* missing file the text 'File not found' and no position; else the position
\* `Line ${bookmark.line + 1}` and the preview, if any.
renderItem(snap, s, vlt, lineCount, failed) ==
    IF ~FileExists(vlt, snap[s].file)
    THEN [missing |-> TRUE, position |-> 0, read |-> "none", preview |-> FileNotFound]
    ELSE [missing |-> FALSE, position |-> snap[s].line + 1,
          read |-> IF s \in failed THEN "failed" ELSE "ok",
          preview |-> getBookmarkPreview(snap[s], vlt, lineCount, s \notin failed)]

\* The slots render() gets to, in ascending order: an exception out of an
\* item's preview ends the loop (and rejects the render's promise).
renderedSlots(snap, vlt, lineCount, failed) ==
    {s \in DOMAIN snap :
        \A t \in DOMAIN snap :
            t < s => renderItem(snap, t, vlt, lineCount, failed).preview # Thrown}

renderItems(snap, vlt, lineCount, failed) ==
    [s \in renderedSlots(snap, vlt, lineCount, failed) |->
        renderItem(snap, s, vlt, lineCount, failed)]

\* ------------------------------------------------------------- host events
\* handleFileRename and handleFileDelete after their loop: if (changed) await
\* this.saveSettings()
changedFx(bm, path) ==
    IF \E s \in DOMAIN bm : bm[s].file = path THEN <<"save">> ELSE <<>>

\* The vault renames file oldPath to newPath (views of it follow) and fires
\* 'rename': handleFileRename up to its await.
VaultRename(p, oldPath, newPath) ==
    LET fx == changedFx(bookmarks, oldPath) IN
    /\ proc[p].pc = "idle"
    /\ oldPath \in vault
    /\ newPath \in Files \ vault
    /\ vault' = (vault \ {oldPath}) \cup {newPath}
    /\ edFile' = [e \in Editors |-> IF edFile[e] = oldPath THEN newPath ELSE edFile[e]]
    /\ bookmarks' = RenameEntries(bookmarks, oldPath, newPath)
    /\ Await(p, [Idle EXCEPT !.op = "rename"], fx, bookmarks')
    /\ ev' = [E0 EXCEPT !.op = "rename", !.of = "rename", !.fx = fx,
                        !.file = oldPath, !.to = newPath]
    /\ UNCHANGED <<disk, activeEd, variantVars, hlVars, viewVars>>

\* The vault deletes file path (views of it close) and fires 'delete':
\* handleFileDelete up to its await.
VaultDelete(p, path) ==
    LET fx == changedFx(bookmarks, path) IN
    /\ proc[p].pc = "idle"
    /\ path \in vault
    /\ vault' = vault \ {path}
    /\ edFile' = [e \in Editors |-> IF edFile[e] = path THEN NoFile ELSE edFile[e]]
    /\ bookmarks' = RemoveEntriesOf(bookmarks, path)
    /\ Await(p, [Idle EXCEPT !.op = "delete"], fx, bookmarks')
    /\ ev' = [E0 EXCEPT !.op = "delete", !.of = "delete", !.fx = fx, !.file = path]
    /\ UNCHANGED <<disk, activeEd, variantVars, hlVars, viewVars>>

\* 'rename' or 'delete' of a folder: both handlers return at once
\* (!(file instanceof TFile)).
VaultFolderEvent(kind) ==
    /\ ev' = [E0 EXCEPT !.op = kind \o ":folder", !.of = kind]
    /\ UNCHANGED <<bookmarks, disk, hostVars, hlVars, viewVars, proc>>

\* A file is created in the vault; the plugin listens to no such event.
VaultCreate(path) ==
    /\ path \in Files \ vault
    /\ vault' = vault \cup {path}
    /\ ev' = [E0 EXCEPT !.op = "create", !.file = path]
    /\ UNCHANGED <<bookmarks, disk, edFile, activeEd, variantVars, hlVars, viewVars, proc>>

\* the 'file-open' handler
fileOpenFx == <<"refresh", "notify">>

\* The active pane shows file path (NoFile: its file is closed) and the
\* workspace fires 'file-open'.
FileOpen(path, lineCount) ==
    /\ path \in vault \cup {NoFile}
    /\ edFile' = [edFile EXCEPT ![activeEd] = path]
    /\ Project(fileOpenFx, bookmarks, edFile', vault, lineCount)
    /\ ev' = [E0 EXCEPT !.op = "file-open", !.fx = fileOpenFx, !.lc = lineCount,
                        !.asked = Asked(fileOpenFx, bookmarks, vault),
                        !.calls = Calls(fileOpenFx, bookmarks, edFile', lineCount),
                        !.prev = PrevMap(activeEd)]
    /\ UNCHANGED <<bookmarks, disk, vault, activeEd, variantVars, proc>>

\* the 'editor-change' handler on editor ed showing path
editorChange(H, ed, path, bm, lineCount, kind) ==
    IF path # NoFile THEN applyLineHighlights(H, ed, path, bm, lineCount, kind)
    ELSE IF H.last = ed
    THEN [clearLineHighlights(H, ed, kind) EXCEPT !.last = NoEditor]
    ELSE H

\* The text of editor ed changes (it now reports lineCount lines) and the
\* workspace fires 'editor-change'.
EditorChange(ed, lineCount) ==
    /\ SetHighlights(editorChange(HL, ed, edFile[ed], bookmarks, lineCount, edKind))
    /\ ev' = [E0 EXCEPT !.op = "editor-change", !.fx = <<"apply">>, !.lc = lineCount,
                        !.calls = IF edKind = "cm5"
                                  THEN editorChange(HL, ed, edFile[ed], bookmarks,
                                                    lineCount, edKind).calls
                                  ELSE {},
                        !.prev = PrevMap(ed)]
    /\ UNCHANGED <<bookmarks, disk, hostVars, viewVars, proc>>

\* the 'active-leaf-change' handler for a leaf whose markdown view shows path
\* (NoFile: the leaf has no markdown view, or one without a file, and neither
\* has the active leaf): nothing is done without a file.
activeLeafChange(H, ed, path, bm, lineCount, kind) ==
    IF path # NoFile THEN applyLineHighlights(H, ed, path, bm, lineCount, kind)
    ELSE H

\* The pane of editor ed becomes the active one and the workspace fires
\* 'active-leaf-change'.
ActiveLeafChange(ed, lineCount) ==
    /\ ed # activeEd
    /\ activeEd' = ed
    /\ SetHighlights(activeLeafChange(HL, ed, edFile[ed], bookmarks, lineCount, edKind))
    /\ ev' = [E0 EXCEPT !.op = "active-leaf-change",
                        !.fx = IF edFile[ed] # NoFile THEN <<"apply">> ELSE <<>>,
                        !.file = edFile[ed], !.lc = lineCount,
                        !.lit = {e \in Editors : applied[e] # {}},
                        !.calls = IF edKind = "cm5"
                                  THEN activeLeafChange(HL, ed, edFile[ed], bookmarks,
                                                        lineCount, edKind).calls
                                  ELSE {},
                        !.prev = PrevMap(ed)]
    /\ UNCHANGED <<bookmarks, disk, vault, edFile, variantVars, viewVars, proc>>

\* --------------------------------------------------------------- list views
\* BookmarkListView.onOpen of a new view instance v (renderPromise null, the
\* container empty): registerBookmarkView adds the view and requests a
\* render. An instance is opened once: v stands for a new instance only when
\* no render of its previous instance is still running.
RegisterView(v) ==
    LET fresh == [RV EXCEPT !.promise[v] = NoRender, !.shown[v] = EmptyTable]
        R == requestRender(fresh, v, bookmarks, vault)
    IN
    /\ v \notin bookmarkViews
    /\ ~renderPromise[v].busy
    /\ bookmarkViews' = bookmarkViews \cup {v}
    /\ renderPromise' = R.promise
    /\ shown' = R.shown
    /\ rendering' = R.running
    /\ ev' = [E0 EXCEPT !.op = "view:open", !.fx = <<"render">>, !.asked = R.asked]
    /\ UNCHANGED <<bookmarks, disk, hostVars, hlVars, proc>>

\* BookmarkListView.onClose: unregisterBookmarkView
UnregisterView(v) ==
    /\ v \in bookmarkViews
    /\ bookmarkViews' = bookmarkViews \ {v}
    /\ ev' = [E0 EXCEPT !.op = "view:close"]
    /\ UNCHANGED <<bookmarks, disk, hostVars, hlVars, renderPromise, shown,
                   rendering, proc>>

\* The render in flight of view v ends, the files having lineCount lines and
\* the preview reads of the slots of `failed` failing: the container shows
\* the items built, and the promise's finally callback clears renderPromise;
\* nothing starts another render. (The file of an item is looked up when the
\* loop gets to it; the lookups are taken at the end of the render.)
RenderDone(v, lineCount, failed) ==
    LET snap == renderPromise[v].snap
        items == renderItems(snap, vault, lineCount, failed)
    IN
    /\ renderPromise[v].busy
    /\ shown' = [shown EXCEPT ![v] = [s \in DOMAIN items |-> snap[s]]]
    /\ renderPromise' = [renderPromise EXCEPT ![v] = NoRender]
    /\ rendering' = [rendering EXCEPT ![v] = @ - 1]
    /\ ev' = [E0 EXCEPT !.op = "render:done", !.missed = renderPromise[v].missed,
                        !.was = snap, !.items = items, !.lc = lineCount]
    /\ UNCHANGED <<bookmarks, disk, hostVars, hlVars, bookmarkViews, proc>>

ViewSteps ==
    \/ \E v \in Views : RegisterView(v)
    \/ \E v \in Views : UnregisterView(v)
    \/ \E v \in Views : RenderDone(v, 1, {})

\* ------------------------------------------------------------ specification
\* The steps of the handlers that the processes of P may run, the commands
\* being those of the slots of S, the editors reporting a line count of N.
HandlersOn(P, S, N) ==
    \/ \E p \in P, s \in S, l \in 0..MaxLine, c \in 0..MaxCh :
          SetBookmark(p, s, l, c)
    \/ \E p \in P, s \in S : RemoveBookmark(p, s)
    \/ \E p \in P, b \in BOOLEAN : ConfirmResolve(p, b)
    \/ \E p \in P : ConfirmDismiss(p)
    \/ \E p \in P, n \in N : SaveDone(p, n)
    \/ \E p \in P, s \in S : GoToBookmark(p, s)
    \/ \E p \in P, b \in BOOLEAN, n \in N, k \in 0..MaxLineLen :
          JumpOpened(p, b, n, k)
    \/ \E p \in P, f \in Files, g \in Files : VaultRename(p, f, g)
    \/ \E p \in P, f \in Files : VaultDelete(p, f)

Handlers(P, S) == HandlersOn(P, S, 0..MaxLineCount)

\* The host's own steps, the editors reporting a line count of N.
HostOn(N) ==
    \/ \E k \in {"rename", "delete"} : VaultFolderEvent(k)
    \/ \E f \in Files : VaultCreate(f)
    \/ \E f \in Files \cup {NoFile}, n \in N : FileOpen(f, n)
    \/ \E n \in N : EditorChange(activeEd, n)

Host == HostOn(0..MaxLineCount)

\* Spec: every slot's commands, no list view open. The event source starts a
\* handler only when none is in flight (one process); the host's own steps
\* may still fall between a handler's awaits.
Next == Handlers({"p1"}, Slots) \/ Host

Spec == Init /\ [][Next]_vars

\* SpecViews: list views open, render and close; the user works with slot 1
\* only, in documents of one line.
NextViews == HandlersOn({"p1"}, {1}, {1}) \/ HostOn({1}) \/ ViewSteps

SpecViews == Loaded({1}) /\ [][NextViews]_vars

\* SpecPanes: two panes, every file present at the start and any table
\* loaded; the user sets and toggles bookmark 1, edits, opens and closes
\* files and moves between the panes, and the vault deletes files.
NextPanes ==
    \/ \E l \in 0..MaxLine, c \in 0..MaxCh : SetBookmark("p1", 1, l, c)
    \/ \E b \in BOOLEAN : ConfirmResolve("p1", b)
    \/ \E n \in 0..MaxLineCount : SaveDone("p1", n)
    \/ \E f \in Files : VaultDelete("p1", f)
    \/ \E f \in Files \cup {NoFile}, n \in 0..MaxLineCount : FileOpen(f, n)
    \/ \E n \in 0..MaxLineCount : EditorChange(activeEd, n)
    \/ \E e \in Editors, n \in 0..MaxLineCount : ActiveLeafChange(e, n)

InitPanes == LoadedFrom({loadData(t) : t \in Tables(Slots)}, "cm6", {Files})

SpecPanes == InitPanes /\ [][NextPanes]_vars

\* SpecLegacy: legacy (CodeMirror 5) editors, whose line classes are added and
\* removed one call at a time; the user works in a.md, with bookmark 1, in two
\* panes, and the vault renames and deletes the file.
NextLegacy ==
    \/ \E l \in 0..MaxLine, c \in 0..MaxCh : SetBookmark("p1", 1, l, c)
    \/ RemoveBookmark("p1", 1)
    \/ \E b \in BOOLEAN : ConfirmResolve("p1", b)
    \/ \E f \in Files, g \in Files : VaultRename("p1", f, g)
    \/ \E f \in Files : VaultDelete("p1", f)
    \/ \E n \in 0..MaxLineCount : SaveDone("p1", n)
    \/ \E f \in Files \cup {NoFile}, n \in 0..MaxLineCount : FileOpen(f, n)
    \/ \E n \in 0..MaxLineCount : EditorChange(activeEd, n)
    \/ \E e \in Editors, n \in 0..MaxLineCount : ActiveLeafChange(e, n)

InitLegacy ==
    LoadedFrom({loadData(t) : t \in {u \in Tables(Slots) :
                                        \A n \in DOMAIN u : u[n].file = "a.md"}},
               "cm5", {{"a.md"}})

SpecLegacy == InitLegacy /\ [][NextLegacy]_vars

\* A caller (render, applyLineHighlights) asks for the sorted bookmarks while
\* Object.entries lists the keys in the order `order`.
GetSortedBookmarks(order) ==
    /\ ev' = [E0 EXCEPT !.op = "sorted", !.order = order,
                        !.sorted = getSortedBookmarks(bookmarks, order)]
    /\ UNCHANGED <<bookmarks, disk, hostVars, hlVars, viewVars, proc>>

\* SpecSorted: tables with up to MaxKeys slots bound, in a.md, which the user
\* binds, overwrites and toggles; the entries are listed in any key order.
SortedTables ==
    UNION {[T -> [file : {"a.md"}, line : 0..MaxLine, ch : {0}]] :
              T \in SUBSET (1..MaxKeys)}

NextSorted ==
    \/ \E o \in KeyOrders(bookmarks) : GetSortedBookmarks(o)
    \/ \E s \in 1..MaxKeys : SetBookmark("p1", s, 0, 0)
    \/ ConfirmResolve("p1", TRUE)
    \/ SaveDone("p1", MaxLineCount)
    \/ FileOpen("a.md", MaxLineCount)

InitSorted == LoadedFrom({loadData(t) : t \in SortedTables}, "cm6", {{"a.md"}})

SpecSorted == InitSorted /\ [][NextSorted]_vars

\* The plugin is disabled and enabled again (or the application restarted)
\* with no handler in flight: onunload clears the highlights, the new
\* instance knows no view, loadSettings reads data.json, and once the layout
\* is ready the highlights are refreshed, the active editor reporting
\* lineCount lines.
Reload(lineCount) ==
    LET data == loadData(disk)
        H == IF lastHighlightedEditor # NoEditor
             THEN [clearLineHighlights(HL, lastHighlightedEditor, edKind)
                      EXCEPT !.last = NoEditor]
             ELSE HL
    IN
    /\ \A p \in Procs : proc[p].pc = "idle"
    /\ bookmarks' = loadSettings(data)
    /\ SetHighlights(refreshEditorHighlights(H, activeEd, edFile[activeEd],
                                             bookmarks', lineCount, edKind))
    /\ bookmarkViews' = {}
    /\ renderPromise' = [v \in Views |-> NoRender]
    /\ shown' = [v \in Views |-> EmptyTable]
    /\ rendering' = [v \in Views |-> 0]
    /\ ev' = [E0 EXCEPT !.op = "load", !.data = data, !.fx = <<"notify", "refresh">>,
                        !.lc = lineCount]
    /\ UNCHANGED <<disk, hostVars, proc>>

\* SpecReload: a first start without data.json, or with one that has no
\* bookmarks key; the user binds, overwrites and toggles slots, and the plugin
\* is loaded again.
InitReload == LoadedFrom({NullData, NoKeyData}, "cm6", SUBSET Files)

NextReload ==
    \/ \E s \in Slots, l \in 0..MaxLine, c \in 0..MaxCh : SetBookmark("p1", s, l, c)
    \/ \E b \in BOOLEAN : ConfirmResolve("p1", b)
    \/ \E n \in 0..MaxLineCount : SaveDone("p1", n)
    \/ \E f \in Files \cup {NoFile}, n \in 0..MaxLineCount : FileOpen(f, n)
    \/ \E n \in 0..MaxLineCount : Reload(n)

SpecReload == InitReload /\ [][NextReload]_vars

\* SpecPreview: a list view renders any table while files are deleted and
\* created; the files have 1..MaxLineCount lines and any preview read may
\* fail.
NextPreview ==
    \/ \E v \in Views : RegisterView(v)
    \/ \E v \in Views : UnregisterView(v)
    \/ \E v \in Views, n \in 1..MaxLineCount, failed \in SUBSET Slots :
          RenderDone(v, n, failed)
    \/ \E f \in Files : VaultDelete("p1", f)
    \/ \E n \in 1..MaxLineCount : SaveDone("p1", n)
    \/ \E f \in Files : VaultCreate(f)

SpecPreview == Init /\ [][NextPreview]_vars

\* SpecAsync: the commands and the vault's events call the handlers without
\* awaiting them (`void this.setBookmark(...)`), so a second handler can start
\* while one waits for its confirmation or its write; the user works with
\* slot 1. While a confirmation modal is open it has the keyboard and covers
\* the list, so no command starts then; the vault's events still arrive.
NoModal == \A p \in Procs : proc[p].pc # "confirm"

NextAsync ==
    \/ \E p \in Procs, l \in 0..MaxLine, c \in 0..MaxCh :
          NoModal /\ SetBookmark(p, 1, l, c)
    \/ \E p \in Procs : NoModal /\ RemoveBookmark(p, 1)
    \/ \E p \in Procs, b \in BOOLEAN : ConfirmResolve(p, b)
    \/ \E p \in Procs, n \in 0..MaxLineCount : SaveDone(p, n)
    \/ \E p \in Procs, f \in Files, g \in Files : VaultRename(p, f, g)
    \/ \E p \in Procs, f \in Files : VaultDelete(p, f)

SpecAsync == Loaded({1}) /\ [][NextAsync]_vars

\* SpecFail: a write to disk may fail; the user works with slot 1.
NextFail == Handlers({"p1"}, {1}) \/ Host \/ SaveFailed("p1")

SpecFail == Loaded({1}) /\ [][NextFail]_vars

\* SpecModal: the confirmation dialog with fairness. The user works with slot
\* 1 in the active document. A dialog that is open is closed in the end, by a
\* button or otherwise (Modal.close is the only way out of it), and a write
\* that was started settles.
CloseDialog ==
    \/ \E b \in BOOLEAN : ConfirmResolve("p1", b)
    \/ ConfirmDismiss("p1")

WriteSettles == \E n \in 1..MaxLineCount : SaveDone("p1", n)

NextModal ==
    \/ \E l \in 0..MaxLine, c \in 0..MaxCh : SetBookmark("p1", 1, l, c)
    \/ RemoveBookmark("p1", 1)
    \/ \E b \in BOOLEAN : ConfirmResolve("p1", b)
    \/ ConfirmDismiss("p1")
    \/ \E n \in 1..MaxLineCount : SaveDone("p1", n)
    \/ \E f \in Files, n \in 1..MaxLineCount : FileOpen(f, n)

SpecModal ==
    Loaded({1}) /\ [][NextModal]_vars /\ WF_vars(CloseDialog) /\ WF_vars(WriteSettles)

\* SpecJump: a jump that waits for leaf.openFile while the commands of slot 1
\* go on: the command callbacks do not await goToBookmark or setBookmark, so a
\* set-bookmark can start and finish while the file opens.
NextJump ==
    \/ \E p \in Procs : NoModal /\ GoToBookmark(p, 1)
    \/ \E p \in Procs, b \in BOOLEAN, n \in 1..MaxLineCount, k \in 0..MaxLineLen :
          JumpOpened(p, b, n, k)
    \/ \E p \in Procs, l \in 0..MaxLine, c \in 0..MaxCh :
          NoModal /\ SetBookmark(p, 1, l, c)
    \/ \E p \in Procs, b \in BOOLEAN : ConfirmResolve(p, b)
    \/ \E p \in Procs, n \in 1..MaxLineCount : SaveDone(p, n)

SpecJump == Loaded({1}) /\ [][NextJump]_vars

\* SpecLoad: data.json holds any table loadData can return; the user works
\* with slot 1.
NextLoad == Handlers({"p1"}, {1}) \/ Host

SpecLoad == LoadedData(RawTables) /\ [][NextLoad]_vars

\* ----------------------------------------------------------- ribbon variant
\* The plugin with one ribbon icon per slot and no list, no highlights, no
\* toggle and no rename or delete handlers. Its goToBookmark is the one above
\* up to the await of leaf.openFile.

\* (mutant) the icon of every bound slot is displayed, whatever its file
updateRibbonVisibilityAnyFile(bm, path) == [s \in Slots |-> Has(bm, s)]

\* updateRibbonVisibility(file): activePath = file?.path ?? '', and for every
\* icon shouldShow = !!bookmark && bookmark.file === activePath
updateRibbonVisibility(bm, path) ==
    [s \in Slots |-> Has(bm, s) /\ bm[s].file = path]

\* onload: loadSettings, then initializeRibbonIcons (every icon hidden) and
\* updateRibbonVisibility(getActiveFile()), no file being open yet.
InitRibbon ==
    \E t \in Tables(Slots) :
        /\ disk = bookmarksOf(loadData(t))
        /\ bookmarks = loadSettings(loadData(t))
        /\ vault = Files
        /\ edFile = [e \in Editors |-> NoFile]
        /\ activeEd = "e1"
        /\ edKind = "cm6"
        /\ ribbonIcons = updateRibbonVisibility(bookmarks, NoFile)
        /\ timeouts = {}
        /\ lastHighlightedEditor = NoEditor
        /\ lineHighlights = [e \in {} |-> EmptyLineMap]
        /\ applied = [e \in Editors |-> {}]
        /\ bookmarkViews = {}
        /\ renderPromise = [v \in Views |-> NoRender]
        /\ shown = [v \in Views |-> EmptyTable]
        /\ rendering = [v \in Views |-> 0]
        /\ proc = [p \in Procs |-> Idle]
        /\ ev = [E0 EXCEPT !.op = "load", !.data = loadData(t)]

\* set-bookmark-<slot> up to await this.saveSettings(): the editorCallback's
\* check, then the entry is written (there is no toggle).
RibbonSetBookmark(p, slot, line, ch) ==
    LET fx == IF ActiveFile = NoFile THEN <<"notice:nofile">> ELSE <<"save">> IN
    /\ proc[p].pc = "idle"
    /\ bookmarks' = IF ActiveFile = NoFile THEN bookmarks
                    ELSE PutBookmark(bookmarks, slot, ActiveFile, line, ch)
    /\ Await(p, [Idle EXCEPT !.op = "set", !.slot = slot, !.note = "saved",
                             !.file = ActiveFile,
                             !.src = [line |-> line, ch |-> ch]],
             fx, bookmarks')
    /\ ev' = [E0 EXCEPT !.op = "set", !.of = "set", !.slot = slot, !.fx = fx,
                        !.file = ActiveFile, !.pos = [line |-> line, ch |-> ch]]
    /\ UNCHANGED <<disk, hostVars, hlVars, viewVars>>

\* setBookmark after the write: the Notice and updateRibbonVisibility(file),
\* file being the view's file the handler read at its start.
RibbonSaveDone(p) ==
    /\ proc[p].pc = "save"
    /\ disk' = saveData(disk, proc[p].snap)
    /\ ribbonIcons' = updateRibbonVisibility(bookmarks, proc[p].file)
    /\ proc' = [proc EXCEPT ![p] = Idle]
    /\ ev' = [E0 EXCEPT !.op = "save:done", !.of = "set", !.slot = proc[p].slot,
                        !.fx = <<"notice:saved", "ribbon">>, !.file = proc[p].file,
                        !.pos = proc[p].src]
    /\ UNCHANGED <<bookmarks, vault, edFile, activeEd, edKind, timeouts, hlVars, viewVars>>

\* goToBookmark after await leaf.openFile(target): updateRibbonVisibility(target),
\* then the cursor is set if the leaf holds a markdown view.
RibbonJumpOpened(p, hasView, lineCount, len) ==
    LET pos == ResolvePosition(proc[p].src, lineCount, len) IN
    /\ proc[p].pc = "open"
    /\ FileExists(vault, proc[p].file)
    /\ edFile' = [edFile EXCEPT ![proc[p].ed] = IF hasView THEN proc[p].file ELSE NoFile]
    /\ ribbonIcons' = updateRibbonVisibility(bookmarks, proc[p].file)
    /\ proc' = [proc EXCEPT ![p] = Idle]
    /\ ev' = [E0 EXCEPT !.op = IF hasView THEN "jump:opened" ELSE "jump:noview",
                        !.of = "jump", !.slot = proc[p].slot,
                        !.fx = IF hasView THEN <<"ribbon", "setCursor", "scroll">>
                               ELSE <<"ribbon", "notice:noeditor">>,
                        !.file = proc[p].file, !.src = proc[p].src,
                        !.pos = IF hasView THEN pos ELSE NoPos,
                        !.lc = lineCount, !.ll = len]
    /\ UNCHANGED <<bookmarks, disk, vault, activeEd, edKind, timeouts, hlVars, viewVars>>

\* The active pane shows file path (NoFile: none) and the workspace fires
\* 'file-open': updateRibbonVisibility(file).
RibbonFileOpen(path) ==
    /\ path \in vault \cup {NoFile}
    /\ edFile' = [edFile EXCEPT ![activeEd] = path]
    /\ ribbonIcons' = updateRibbonVisibility(bookmarks, path)
    /\ ev' = [E0 EXCEPT !.op = "file-open", !.fx = <<"ribbon">>, !.file = path]
    /\ UNCHANGED <<bookmarks, disk, vault, activeEd, edKind, timeouts, hlVars, viewVars, proc>>

\* SpecRibbon: the ribbon variant, one handler at a time; the workspace's
\* events arrive also while a handler waits for its write or its file.
NextRibbon ==
    \/ \E s \in Slots, l \in 0..MaxLine, c \in 0..MaxCh : RibbonSetBookmark("p1", s, l, c)
    \/ RibbonSaveDone("p1")
    \/ \E s \in Slots : GoToBookmark("p1", s)
    \/ \E b \in BOOLEAN, n \in 1..MaxLineCount, k \in 0..MaxLineLen :
          RibbonJumpOpened("p1", b, n, k)
    \/ \E f \in Files \cup {NoFile} : RibbonFileOpen(f)

SpecRibbon == InitRibbon /\ [][NextRibbon]_vars

\* -------------------------------------------------------------- DOM variant
\* The plugin that highlights through the editor's DOM (src/main.ts, second
\* class): editor.cm is an EditorView, which has a dom and no addLineClass,
\* and the classes are added by a callback deferred 50 ms. A pending callback
\* is [ed, lineMap]: the editor and, from the bookmarks and the line count it
\* captured, the safe line of every slot. set-bookmark has no toggle.
DH == [last |-> lastHighlightedEditor, maps |-> lineHighlights, applied |-> applied,
       timeouts |-> timeouts]

SetDomHighlights(D) ==
    /\ lastHighlightedEditor' = D.last
    /\ lineHighlights' = D.maps
    /\ applied' = D.applied
    /\ timeouts' = D.timeouts

\* clearLineHighlightsViaDOM(container): every highlight class leaves the
\* lines of the container
clearLineHighlightsViaDOM(D, ed) == [D EXCEPT !.applied[ed] = {}]

\* clearLineHighlights(editor) of this variant: nothing without a line map;
\* else the DOM is cleared and the map deleted
clearLineHighlightsDom(D, ed) ==
    IF ed \notin DOMAIN D.maps THEN D
    ELSE [clearLineHighlightsViaDOM(D, ed) EXCEPT !.maps = DropMap(D.maps, ed)]

\* applyLineHighlightsViaDOM: the editor's DOM is cleared; without bookmarks in
\* the file the editor becomes the last highlighted one; else the callback is
\* scheduled, and neither the map nor lastHighlightedEditor is touched yet.
applyLineHighlightsViaDOM(D, ed, path, bm, lineCount) ==
    LET C == clearLineHighlightsViaDOM(D, ed)
        lineMap == BuildLineMap(bm, path, lineCount)
    IN  IF DOMAIN lineMap = {} THEN [C EXCEPT !.last = ed]
        ELSE [C EXCEPT !.timeouts = @ \cup {[ed |-> ed, lineMap |-> lineMap]}]

\* applyLineHighlights of this variant, for an editor with .cm
applyLineHighlightsDom(D, ed, path, bm, lineCount) ==
    LET D1 == IF D.last # NoEditor /\ D.last # ed
              THEN clearLineHighlightsDom(D, D.last) ELSE D
        D2 == clearLineHighlightsDom(D1, ed)
    IN  IF DOMAIN BuildLineMap(bm, path, lineCount) = {} THEN [D2 EXCEPT !.last = ed]
        ELSE applyLineHighlightsViaDOM(D2, ed, path, bm, lineCount)

\* refreshEditorHighlights of this variant
refreshEditorHighlightsDom(D, ed, path, bm, lineCount) ==
    IF path = NoFile
    THEN IF D.last # NoEditor
         THEN [clearLineHighlightsDom(D, D.last) EXCEPT !.last = NoEditor]
         ELSE D
    ELSE applyLineHighlightsDom(D, ed, path, bm, lineCount)

\* A refresh may schedule one more callback.
CanSchedule == Cardinality(timeouts) < MaxTimeouts

\* refreshEditorHighlights and notifyBookmarkViews on the table bm, the panes
\* eds and the active editor act
DomProject(bm, eds, act, lineCount) ==
    /\ CanSchedule
    /\ SetDomHighlights(refreshEditorHighlightsDom(DH, act, eds[act], bm, lineCount))
    /\ SetViews(notifyBookmarkViews(RV, bookmarkViews, bm, vault))

\* set-bookmark-<slot> up to await this.saveSettings()
DomSetBookmark(p, slot, line, ch) ==
    LET fx == IF ActiveFile = NoFile THEN <<"notice:nofile">> ELSE <<"save">> IN
    /\ proc[p].pc = "idle"
    /\ bookmarks' = IF ActiveFile = NoFile THEN bookmarks
                    ELSE PutBookmark(bookmarks, slot, ActiveFile, line, ch)
    /\ Await(p, [Idle EXCEPT !.op = "set", !.slot = slot, !.note = "saved",
                             !.file = ActiveFile,
                             !.src = [line |-> line, ch |-> ch]],
             fx, bookmarks')
    /\ ev' = [E0 EXCEPT !.op = "set", !.of = "set", !.slot = slot, !.fx = fx,
                        !.file = ActiveFile, !.pos = [line |-> line, ch |-> ch]]
    /\ UNCHANGED <<disk, hostVars, hlVars, viewVars>>

\* setBookmark after the write: Notice, refreshEditorHighlights,
\* notifyBookmarkViews
DomSaveDone(p, lineCount) ==
    /\ proc[p].pc = "save"
    /\ disk' = saveData(disk, proc[p].snap)
    /\ DomProject(bookmarks, edFile, activeEd, lineCount)
    /\ proc' = [proc EXCEPT ![p] = Idle]
    /\ ev' = [E0 EXCEPT !.op = "save:done", !.of = "set", !.slot = proc[p].slot,
                        !.fx = savedFx("saved"), !.file = proc[p].file,
                        !.pos = proc[p].src, !.lc = lineCount]
    /\ UNCHANGED <<bookmarks, vault, edFile, activeEd, edKind, ribbonIcons>>

\* Pane ed becomes (or is) the active one and shows file path (NoFile: none);
\* the active document having changed, the workspace fires 'file-open'.
DomFileOpen(ed, path, lineCount) ==
    /\ path \in vault \cup {NoFile}
    /\ activeEd' = ed
    /\ edFile' = [edFile EXCEPT ![ed] = path]
    /\ DomProject(bookmarks, edFile', ed, lineCount)
    /\ ev' = [E0 EXCEPT !.op = "file-open", !.fx = fileOpenFx, !.file = path,
                        !.lc = lineCount]
    /\ UNCHANGED <<bookmarks, disk, vault, edKind, ribbonIcons, proc>>

\* The lines of lineMap that findLineElement finds in a DOM of docLines lines
FoundLines(lineMap, docLines) ==
    [l \in {k \in DOMAIN lineMap : k < docLines} |-> lineMap[l]]

\* A scheduled callback fires, the editor's DOM having docLines lines: the
\* classes are added to the lines found, the map is stored, and the editor
\* becomes the last highlighted one.
TimeoutFires(t, docLines) ==
    LET lineMap == FoundLines(t.lineMap, docLines) IN
    /\ t \in timeouts
    /\ timeouts' = timeouts \ {t}
    /\ applied' = [applied EXCEPT ![t.ed] = @ \cup ClassesOf(lineMap)]
    /\ lineHighlights' = [e \in DOMAIN lineHighlights \cup {t.ed} |->
                             IF e = t.ed THEN lineMap ELSE lineHighlights[e]]
    /\ lastHighlightedEditor' = t.ed
    /\ ev' = [E0 EXCEPT !.op = "timeout", !.lc = docLines]
    /\ UNCHANGED <<bookmarks, disk, vault, edFile, activeEd, edKind, ribbonIcons,
                   viewVars, proc>>

\* SpecDom: the DOM variant with two panes; the user works with slot 1.
NextDom ==
    \/ \E l \in 0..MaxLine, c \in 0..MaxCh : DomSetBookmark("p1", 1, l, c)
    \/ \E n \in 1..MaxLineCount : DomSaveDone("p1", n)
    \/ \E e \in Editors, f \in Files \cup {NoFile}, n \in 1..MaxLineCount :
          DomFileOpen(e, f, n)
    \/ \E t \in timeouts, n \in 1..MaxLineCount : TimeoutFires(t, n)

InitDom == LoadedFrom({loadData(t) : t \in Tables({1})}, "cm6", {Files})

SpecDom == InitDom /\ [][NextDom]_vars

\* ------------------------------------------------------------------ claims
\* The cursor location of the set-bookmark step just taken.
Cur == [file |-> ev.file, line |-> ev.pos.line, ch |-> ev.pos.ch]

\* The slot of the step just taken was bound before the step.
WasBound == ev.slot \in DOMAIN ev.pre

\* Every slot but the step's has the binding it had before the step.
OthersKept ==
    \A t \in Slots \ {ev.slot} :
        /\ (t \in DOMAIN bookmarks) = (t \in DOMAIN ev.pre)
        /\ t \in DOMAIN ev.pre => bookmarks[t] = ev.pre[t]

\* C1: set-bookmark(s) with the cursor at e = (file, line, ch), s unbound or
\* bound elsewhere, leaves the table mapping s to exactly e, line and ch as
\* the cursor gave them; the handler's last step (after the write is saved)
\* changes nothing, so that on completion the table still maps s to e.
C1_SetStoresCursor ==
    /\ (ev.op = "set" /\ ev.file # NoFile /\ (~WasBound \/ ev.pre[ev.slot] # Cur))
         => (Has(bookmarks, ev.slot) /\ bookmarks[ev.slot] = Cur)
    /\ (ev.op = "save:done" /\ ev.of = "set"
          /\ ev.fx[1] \in {"notice:saved", "notice:updated"})
         => (bookmarks = ev.pre /\ Has(bookmarks, ev.slot) /\ bookmarks[ev.slot] = Cur)

C1_Witness ==
    /\ ev.op = "save:done" /\ ev.of = "set" /\ ev.fx[1] = "notice:saved"
    /\ ev.pos = [line |-> MaxLine, ch |-> MaxCh]
    /\ bookmarks[ev.slot].line = MaxLine

\* C2: set-bookmark(s) with the cursor exactly where s is bound requests a
\* confirmation (and changes nothing yet); once confirmed, s is unbound.
C2_SamePlaceToggles ==
    /\ (ev.op = "set" /\ ev.file # NoFile /\ WasBound /\ ev.pre[ev.slot] = Cur)
         => (ev.fx = <<"confirm">> /\ bookmarks = ev.pre)
    /\ (ev.op = "confirm:yes" /\ ev.of = "set")
         => (WasBound /\ ~Has(bookmarks, ev.slot) /\ OthersKept)

C2_Witness == ev.op = "confirm:yes" /\ ev.of = "set" /\ ~Has(bookmarks, ev.slot)

\* C3: a declined confirmation (of a toggle or of a remove-bookmark) is a
\* no-op: the table is as before, slot s still bound, and the step calls
\* neither saveData nor the highlight refresh nor the view notification.
C3_DeclineIsNoOp ==
    ev.op = "confirm:no" =>
        /\ ev.of \in {"set", "remove"}
        /\ bookmarks = ev.pre
        /\ Has(bookmarks, ev.slot)
        /\ ev.fx = <<>>
        /\ \A p \in Procs : proc[p].pc = "idle"

C3_Witness ==
    /\ ev.op = "confirm:no" /\ ev.of = "remove"
    /\ Has(bookmarks, ev.slot)
    /\ ev.fx = <<>>

C5_RemoveBookmark ==
    /\ (ev.op = "remove" /\ ~WasBound)
         => (bookmarks = ev.pre /\ ev.fx = <<>> /\ \A p \in Procs : proc[p].pc = "idle")
    /\ (ev.op = "remove" /\ WasBound)
         => (bookmarks = ev.pre /\ ev.fx = <<"confirm">>)
    /\ (ev.op = "confirm:yes" /\ ev.of = "remove")
         => (~Has(bookmarks, ev.slot) /\ OthersKept /\ ev.fx = <<"save">>)

\* a confirmed removal with another slot bound
C5_Witness ==
    /\ ev.op = "confirm:yes" /\ ev.of = "remove"
    /\ WasBound
    /\ DOMAIN bookmarks = Slots \ {ev.slot}

\* C6: a successful jump puts the cursor at line' = the entry's line clamped
\* to [0, max(lineCount - 1, 0)] and ch' = the entry's ch clamped to
\* [0, length of line line'], against the editor as it is after the open.
ExpectedLine ==
    IF ev.lc = 0 THEN 0
    ELSE IF ev.src.line > ev.lc - 1 THEN ev.lc - 1
    ELSE IF ev.src.line < 0 THEN 0
    ELSE ev.src.line

ExpectedCh ==
    LET len == IF ExpectedLine < ev.lc THEN ev.ll ELSE 0
    IN  IF ev.src.ch > len THEN len
        ELSE IF ev.src.ch < 0 THEN 0
        ELSE ev.src.ch

C6_JumpResolves ==
    /\ ev.op = "jump:opened"
         => /\ ev.pos = [line |-> ExpectedLine, ch |-> ExpectedCh]
            /\ ev.fx[1] = "setCursor"
    /\ ResolveLine(100, 10) = 9
    /\ ResolveCh(50, 5) = 5
    /\ \A l \in 0..MaxLine + 1 : ResolveLine(l, 0) = 0
    /\ \A k \in 0..MaxLineLen + 1 :
          ResolvePosition([line |-> 5, ch |-> 0], 10, k) = [line |-> 5, ch |-> 0]

\* both the line and the column were clamped
C6_Witness ==
    /\ ev.op = "jump:opened"
    /\ ev.src.line > ev.pos.line
    /\ ev.src.ch > ev.pos.ch
    /\ ev.lc > 0

\* C7: jump-to-bookmark(s) on a slot whose file does not exist reports it
\* missing and stops: openFile is not called, the cursor is not set, and the
\* table still holds slot s with the same entry.
C7_JumpMissing ==
    (ev.op = "jump" /\ WasBound /\ ev.pre[ev.slot].file \notin vault)
        => /\ ev.fx = <<"notice:missing">>
           /\ bookmarks = ev.pre
           /\ Has(bookmarks, ev.slot)
           /\ \A p \in Procs : proc[p].pc # "open"

C7_Witness ==
    /\ ev.op = "jump" /\ ev.fx = <<"notice:missing">>
    /\ Has(bookmarks, ev.slot)
    /\ bookmarks[ev.slot].file \notin vault

\* C8: jump-to-bookmark(s) on an unbound slot reports "not set" and stops:
\* no openFile, no cursor move, no highlight refresh, no view notification,
\* and the table is unchanged.
C8_JumpUnbound ==
    (ev.op = "jump" /\ ~WasBound)
        => /\ ev.fx = <<"notice:notset">>
           /\ bookmarks = ev.pre
           /\ \A p \in Procs : proc[p].pc # "open"

C8_Witness ==
    /\ ev.op = "jump" /\ ~Has(bookmarks, ev.slot)
    /\ ev.fx = <<"notice:notset">>
    /\ bookmarks # EmptyTable

\* C9: resolution never writes back: every step of jump-to-bookmark, every
\* highlight projection and every list render leaves the table as it was and
\* calls no saveData, so an entry whose line or ch lies outside the document
\* stays stored as authored.
ResolutionSteps ==
    {"jump", "jump:opened", "jump:noview", "file-open", "editor-change",
     "view:open", "render:done"}

C9_ResolutionNeverWritesBack ==
    ev.op \in ResolutionSteps => (bookmarks = ev.pre /\ ~In("save", ev.fx))

\* a jump that clamped the line, with a list view rendering
C9_Witness ==
    /\ ev.op = "jump:opened"
    /\ ev.pos.line < ev.src.line
    /\ Has(bookmarks, ev.slot)
    /\ bookmarks[ev.slot].line = ev.src.line
    /\ \E v \in bookmarkViews : renderPromise[v].busy

\* C10: the rename of a file rewrites the file of every entry of the old
\* path to the new path, in place: the bound slots, and every entry's line
\* and ch, are unchanged, other files' entries are untouched; saveData is
\* called exactly when an entry matched, and the refresh and the notification
\* follow only then (after the save).
C10_RenameRewritesInPlace ==
    /\ ev.op = "rename" =>
         /\ DOMAIN bookmarks = DOMAIN ev.pre
         /\ \A s \in DOMAIN ev.pre :
              /\ bookmarks[s].line = ev.pre[s].line
              /\ bookmarks[s].ch = ev.pre[s].ch
              /\ bookmarks[s].file =
                    IF ev.pre[s].file = ev.file THEN ev.to ELSE ev.pre[s].file
         /\ IF \E s \in DOMAIN ev.pre : ev.pre[s].file = ev.file
            THEN ev.fx = <<"save">>
            ELSE ev.fx = <<>> /\ \A p \in Procs : proc[p].pc = "idle"
    /\ (ev.op = "save:done" /\ ev.of = "rename")
         => (ev.fx = <<"refresh", "notify">> /\ bookmarks = ev.pre)

\* two entries of the renamed file
C10_Witness ==
    /\ ev.op = "rename"
    /\ DOMAIN ev.pre = Slots
    /\ \A s \in Slots : ev.pre[s].file = ev.file /\ bookmarks[s].file = ev.to
    /\ ev.pre[1].line # ev.pre[2].line

\* C11: the delete of a file removes every entry of that file, all of them
\* when several slots point at it, and no other entry; saveData is called
\* exactly when an entry was removed, the refresh and the notification follow
\* that write, and without a removal the handler ends with none of the three.
C11_DeleteRemovesEntries ==
    /\ ev.op = "delete" =>
         /\ DOMAIN bookmarks = {s \in DOMAIN ev.pre : ev.pre[s].file # ev.file}
         /\ \A s \in DOMAIN bookmarks : bookmarks[s] = ev.pre[s]
         /\ IF \E s \in DOMAIN ev.pre : ev.pre[s].file = ev.file
            THEN ev.fx = <<"save">> /\ \E p \in Procs : proc[p].pc = "save"
            ELSE ev.fx = <<>> /\ \A p \in Procs : proc[p].pc = "idle"
    /\ (ev.op = "save:done" /\ ev.of = "delete")
         => (ev.fx = <<"refresh", "notify">> /\ bookmarks = ev.pre)

\* every slot pointed at the deleted file
C11_Witness ==
    /\ ev.op = "delete"
    /\ DOMAIN ev.pre = Slots
    /\ \A s \in Slots : ev.pre[s].file = ev.file
    /\ bookmarks = EmptyTable

\* C12: a bound slot becomes unbound only by a confirmed toggle or a
\* confirmed remove-bookmark of that slot, or by the delete of its entry's
\* file; every other step (a jump, also one to a missing file, a render, a
\* highlight refresh, a rename, a change of the active file) keeps every
\* bound slot bound and its entry as it was, but for the slot a set-bookmark
\* writes and the file of the entries a rename rewrites; so an entry whose
\* file is missing stays as it is.
Removed == DOMAIN ev.pre \ DOMAIN bookmarks

C12_EntryLeavesOnlyByRemoval ==
    /\ \A s \in Removed :
          \/ ev.op = "confirm:yes" /\ ev.of \in {"set", "remove"} /\ ev.slot = s
          \/ ev.op = "delete" /\ ev.pre[s].file = ev.file
    /\ ev.op \notin {"confirm:yes", "delete"} =>
          /\ Removed = {}
          /\ \A s \in DOMAIN ev.pre :
                \/ bookmarks[s] = ev.pre[s]
                \/ ev.op = "set" /\ ev.slot = s
                \/ /\ ev.op = "rename" /\ ev.pre[s].file = ev.file
                   /\ bookmarks[s] = [ev.pre[s] EXCEPT !.file = ev.to]

\* a list view opens on a table whose entry's file is missing
C12_Witness ==
    /\ ev.op = "view:open"
    /\ \E s \in DOMAIN bookmarks : bookmarks[s].file \notin vault
    /\ \E v \in bookmarkViews : shown[v] = bookmarks

MutatingHandlers == {"set", "remove", "rename", "delete"}

C14_WriteThroughOrdered ==
    /\ bookmarks # ev.pre =>
          /\ ev.op \in {"set", "confirm:yes", "rename", "delete"}
          /\ ev.fx = <<"save">>
          /\ \E p \in Procs : proc[p].pc = "save" /\ proc[p].snap = bookmarks
    /\ (ev.of \in MutatingHandlers /\ (In("refresh", ev.fx) \/ In("notify", ev.fx)))
          => /\ ev.op = "save:done"
             /\ disk = bookmarks
             /\ ~In("save", ev.fx)

\* the write of an overwrite completed: the new table is on disk, then the refresh
C14_Witness ==
    /\ ev.op = "save:done" /\ ev.of = "set"
    /\ ev.fx = <<"notice:updated", "refresh", "notify">>
    /\ disk = bookmarks
    /\ DOMAIN disk = Slots

\* C15: when the write of a mutation fails, the table in memory keeps the
\* mutation: the failure changes nothing in the table (a set slot holds the
\* cursor location, a removed slot is unbound), and a jump started afterwards
\* reads the entry of the table in memory, not the one on disk.
C15_FailedWriteKeepsMutation ==
    /\ ev.op = "save:failed" =>
          /\ bookmarks = ev.pre
          /\ (ev.of = "set" /\ ev.pos # NoPos) =>
                (Has(bookmarks, ev.slot) /\ bookmarks[ev.slot] = Cur)
          /\ (ev.of = "remove" \/ (ev.of = "set" /\ ev.pos = NoPos)) =>
                ~Has(bookmarks, ev.slot)
    /\ (ev.op = "jump" /\ ev.fx = <<"open">>) =>
          \E p \in Procs :
              /\ proc[p].pc = "open"
              /\ proc[p].file = bookmarks[ev.slot].file
              /\ proc[p].src = [line |-> bookmarks[ev.slot].line,
                                ch |-> bookmarks[ev.slot].ch]

\* the failed write of a new bookmark: the slot is bound in memory, not on disk
C15_Witness ==
    /\ ev.op = "save:failed" /\ ev.of = "set"
    /\ Has(bookmarks, ev.slot)
    /\ ~Has(disk, ev.slot)

\* C16: there is no retry, and none is needed: a write that completes puts
\* the whole table of that moment on disk, so that with no write pending the
\* table on disk is the table in memory, whatever earlier write failed and
\* with the mutation of that failed write in it.
C16_SuccessfulWriteConverges ==
    (ev.op = "save:done" /\ \A p \in Procs : proc[p].pc # "save")
        => disk = bookmarks

\* a rename's write carries the bookmark whose own write had failed: the slot
\* was not on disk before
C16_Witness ==
    /\ ev.op = "save:done" /\ ev.of = "rename"
    /\ \E s \in DOMAIN bookmarks : s \notin DOMAIN ev.was
    /\ disk = bookmarks

\* C17: a view has at most one render running: a requestRender that finds a
\* render in flight starts none, whichever handler or host event sent it;
\* renderPromise is set exactly while that one render runs.
C17_OneRenderInFlight ==
    \A v \in Views :
        /\ rendering[v] <= 1
        /\ renderPromise[v].busy <=> rendering[v] = 1

\* a notification reached a view whose render was running on an older table
C17_Witness ==
    \E v \in bookmarkViews :
        /\ v \in ev.asked
        /\ renderPromise[v].busy /\ renderPromise[v].missed
        /\ renderPromise[v].snap # bookmarks
        /\ rendering[v] = 1

\* C18: when requests reach a view while its render runs, one more render
\* runs after that render: when a render that absorbed a request ends, a
\* render of that view is started. (Violated: nothing starts a render when
\* the first one ends.)
C18_AbsorbedRequestRendersAgain ==
    (ev.op = "render:done" /\ ev.missed)
        => \A v \in bookmarkViews : renderPromise[v].busy

\* C19: after a mutation every registered view comes to show the table as it
\* is: with no handler and no render in flight, what a registered view shows
\* is the current table. (Violated: a notification absorbed by a render that
\* had already read the table is never made up for.)
C19_ViewsShowCurrentTable ==
    (/\ \A p \in Procs : proc[p].pc = "idle"
     /\ \A v \in Views : ~renderPromise[v].busy)
        => \A v \in bookmarkViews : shown[v] = bookmarks

\* C20: opening a view registers it and requests a render from it at once; a
\* notification requests a render from exactly the views registered at that
\* moment; a view that was closed gets no request from later notifications.
C20_RegistryAndNotify ==
    /\ ev.op = "view:open" =>
          /\ ev.asked # {} /\ ev.asked \subseteq bookmarkViews
          /\ \A v \in ev.asked :
                \/ renderPromise[v].busy /\ renderPromise[v].snap = bookmarks
                \/ ~renderPromise[v].busy /\ shown[v] = bookmarks
    /\ In("notify", ev.fx) => ev.asked = bookmarkViews
    /\ ev.op = "view:close" => ev.asked = {} /\ bookmarkViews # Views

\* a notification after the view was closed: the closed view still shows the
\* table of its last render
C20_Witness ==
    /\ In("notify", ev.fx)
    /\ \E v \in Views \ bookmarkViews :
          /\ shown[v] # EmptyTable /\ shown[v] # bookmarks
          /\ ~renderPromise[v].busy

\* C21: at most one editor carries bookmark highlights: a line map is
\* tracked for no editor but the last-highlighted one, and no other editor
\* has a highlight class applied; a projection onto another editor leaves the
\* editor highlighted before with none.
C21_OneEditorHighlighted ==
    /\ DOMAIN lineHighlights \subseteq {lastHighlightedEditor}
    /\ \A e \in Editors : e # lastHighlightedEditor => applied[e] = {}

\* the projection moved from a highlighted editor to the other one
C21_Witness ==
    /\ ev.op = "active-leaf-change"
    /\ ev.lit = Editors \ {activeEd}
    /\ lastHighlightedEditor = activeEd
    /\ applied[activeEd] # {}

\* C22: after a projection onto the editor of document d reporting n lines,
\* the editor's line map holds exactly the slots whose entry's file is d, each
\* on the line min(max(line, 0), max(n - 1, 0)): slots that resolve to the
\* same line share it, and entries of other files are on no line (no map is
\* kept when no entry is of d).
Projected == In("refresh", ev.fx) \/ In("apply", ev.fx)

SlotsOn(d, n, l) ==
    {s \in DOMAIN bookmarks :
        /\ bookmarks[s].file = d
        /\ l = (IF n = 0 THEN 0
                ELSE IF bookmarks[s].line >= n THEN n - 1
                ELSE IF bookmarks[s].line < 0 THEN 0
                ELSE bookmarks[s].line)}

C22_LineMapIsProjection ==
    (Projected /\ edFile[activeEd] # NoFile) =>
        LET d == edFile[activeEd]
            lines == {l \in 0..(MaxLine + MaxLineCount + 1) : SlotsOn(d, ev.lc, l) # {}}
        IN  IF lines = {}
            THEN activeEd \notin DOMAIN lineHighlights
            ELSE /\ activeEd \in DOMAIN lineHighlights
                 /\ DOMAIN lineHighlights[activeEd] = lines
                 /\ \A l \in lines : lineHighlights[activeEd][l] = SlotsOn(d, ev.lc, l)

\* two slots with different stored lines share the last line of the document
C22_Witness ==
    /\ Projected /\ edFile[activeEd] # NoFile
    /\ DOMAIN bookmarks = Slots
    /\ bookmarks[1].line # bookmarks[2].line
    /\ activeEd \in DOMAIN lineHighlights
    /\ \E l \in DOMAIN lineHighlights[activeEd] : lineHighlights[activeEd][l] = Slots

\* C23: a projection onto the legacy editor that was highlighted last makes
\* the minimal calls against the line map it had: on a line that had
\* highlights and has none now, the removal of the generic class and of each
\* of its slot classes; on a line that has highlights only now, the addition
\* of the generic class and of each slot class; on a line of both maps, an
\* addition per slot that came and a removal per slot that went, and nothing
\* else; so a line whose slots are unchanged gets no call.
CallsAt(what, l) ==
    {x[4] : x \in {y \in ev.calls : y[1] = activeEd /\ y[2] = what /\ y[3] = l}}

NowMap == IF activeEd \in DOMAIN lineHighlights THEN lineHighlights[activeEd]
          ELSE EmptyLineMap

C23_MinimalDelta ==
    (Projected /\ edFile[activeEd] # NoFile) =>
        \A l \in 0..(MaxLine + MaxLineCount + 1) :
            LET was == l \in DOMAIN ev.prev
                now == l \in DOMAIN NowMap
            IN  /\ (was /\ ~now) =>
                      /\ CallsAt("remove", l) = {0} \cup ev.prev[l]
                      /\ CallsAt("add", l) = {}
                /\ (now /\ ~was) =>
                      /\ CallsAt("add", l) = {0} \cup NowMap[l]
                      /\ CallsAt("remove", l) = {}
                /\ (was /\ now) =>
                      /\ CallsAt("add", l) = NowMap[l] \ ev.prev[l]
                      /\ CallsAt("remove", l) = ev.prev[l] \ NowMap[l]
                /\ (~was /\ ~now) => (CallsAt("add", l) = {} /\ CallsAt("remove", l) = {})

\* bookmark 1 moved off a line that keeps bookmark 2: one removal there, and
\* the additions on the line it moved to
C23_Witness ==
    /\ ev.op = "save:done" /\ ev.of = "set"
    /\ edFile[activeEd] # NoFile
    /\ \E l \in DOMAIN ev.prev \cap DOMAIN NowMap :
          /\ ev.prev[l] = Slots /\ NowMap[l] = {2}
          /\ CallsAt("remove", l) = {1}
    /\ \E l \in DOMAIN NowMap \ DOMAIN ev.prev : CallsAt("add", l) = {0, 1}

\* C24: after a refresh that finds no file in the active view, no editor
\* carries a highlight class, no editor is remembered as highlighted last and
\* no line map is tracked.
C24_RefreshWithoutDocumentClears ==
    (In("refresh", ev.fx) /\ edFile[activeEd] = NoFile) =>
        /\ \A e \in Editors : applied[e] = {}
        /\ lastHighlightedEditor = NoEditor
        /\ DOMAIN lineHighlights = {}

\* the file of the active pane is closed while the other pane, left without
\* a word to the projector, still carried the highlights
C24_Witness ==
    /\ ev.op = "file-open"
    /\ edFile[activeEd] = NoFile
    /\ \E x \in ev.calls : x[1] # activeEd /\ x[2] = "remove"

\* C25: after each 'file-open' and each 'active-leaf-change' the highlights
\* are those of the new active document: with a file in the active view its
\* editor carries the classes of the projection of the table and is the only
\* one that does; without one no editor carries a highlight class.
C25_ActiveChangeReprojects ==
    (ev.op \in {"file-open", "active-leaf-change"}) =>
        IF edFile[activeEd] # NoFile
        THEN /\ \A l \in 0..(MaxLine + MaxLineCount + 1) :
                    IF SlotsOn(edFile[activeEd], ev.lc, l) = {}
                    THEN l \notin DOMAIN NowMap
                    ELSE /\ l \in DOMAIN NowMap
                         /\ NowMap[l] = SlotsOn(edFile[activeEd], ev.lc, l)
             /\ applied[activeEd] = ClassesOf(NowMap)
             /\ \A e \in Editors \ {activeEd} : applied[e] = {}
        ELSE \A e \in Editors : applied[e] = {}

\* C26: the step that ends a set-bookmark handler which has changed the table
\* (a create, an overwrite or a confirmed toggle, its write settled), and the
\* step of a jump that has opened the file and set the cursor, end with a
\* highlight refresh followed by a notification, which asks every registered
\* view to render.
RefreshThenNotify(fx) ==
    /\ Len(fx) >= 2
    /\ fx[Len(fx) - 1] = "refresh"
    /\ fx[Len(fx)] = "notify"

C26_ChangeThenRefreshNotify ==
    (\/ ev.op \in {"save:done", "save:failed"} /\ ev.of = "set"
     \/ ev.op = "jump:opened")
        => (RefreshThenNotify(ev.fx) /\ ev.asked = bookmarkViews)

\* The step of a set-bookmark command run while the active view has no file:
\* a notice and nothing else.
C27_SetWithoutDocumentStep ==
    (ev'.op = "set" /\ ev'.file = NoFile) =>
        /\ ev'.fx = <<"notice:nofile">>
        /\ UNCHANGED <<bookmarks, disk, hostVars, hlVars, viewVars, proc>>

\* C27: a set-bookmark command run while the active view has no file only
\* shows a notice: the step leaves the table, data.json, the highlights of
\* every editor, the views and their renders as they were, and no handler is
\* left waiting.
C27_SetWithoutDocument == [][C27_SetWithoutDocumentStep]_vars

\* the command runs in a pane without file while the other pane carries the
\* highlights of a bound slot
C27_Witness ==
    /\ ev.op = "set" /\ ev.file = NoFile
    /\ edFile[activeEd] = NoFile
    /\ bookmarks # EmptyTable
    /\ \E e \in Editors \ {activeEd} : applied[e] # {}

\* C28: while a set-bookmark, remove-bookmark, rename or delete handler is
\* between its start and its end (waiting for the confirmation or for the
\* write), no other handler has started: at most one handler is in flight,
\* and the table is as that handler left it.
InFlight == {p \in Procs : proc[p].pc # "idle" /\ proc[p].op \in MutatingHandlers}

C28_HandlersDoNotInterleave ==
    /\ Cardinality(InFlight) <= 1
    /\ \A p \in InFlight : proc[p].pc = "save" => proc[p].snap = bookmarks

\* C29: getSortedBookmarks returns the bound slots of the table, each once,
\* with its entry, in ascending numeric order, in whatever order the keys of
\* the table are listed.
C29_SortedAscending ==
    (ev.op = "sorted") =>
        /\ Len(ev.sorted) = Cardinality(DOMAIN bookmarks)
        /\ {ev.sorted[i][1] : i \in DOMAIN ev.sorted} = DOMAIN bookmarks
        /\ \A i, j \in DOMAIN ev.sorted : i < j => ev.sorted[i][1] < ev.sorted[j][1]
        /\ \A i \in DOMAIN ev.sorted : ev.sorted[i][2] = bookmarks[ev.sorted[i][1]]

\* the keys were listed in descending order, in a session that has changed
\* the table
C29_Witness ==
    /\ ev.op = "sorted"
    /\ Len(ev.order) >= 3
    /\ \A i, j \in DOMAIN ev.order : i < j => ev.order[i] > ev.order[j]
    /\ lastHighlightedEditor # NoEditor

\* C30: after loadSettings the table is the persisted bookmarks merged over
\* the empty default: empty when loadData returned null or an object without
\* a bookmarks key, and otherwise, data.json having been written by the last
\* successful save, the table that save was given: the same slots, each with
\* the same file, line and ch.
C30_LoadMergesPersisted ==
    (ev.op = "load") =>
        /\ (ev.data = NullData \/ "bookmarks" \notin DOMAIN ev.data) =>
              bookmarks = EmptyTable
        /\ DOMAIN bookmarks = DOMAIN disk
        /\ \A s \in DOMAIN disk :
              /\ bookmarks[s].file = disk[s].file
              /\ bookmarks[s].line = disk[s].line
              /\ bookmarks[s].ch = disk[s].ch

\* the session started without data and has saved both slots, one of them
\* with a column other than 0, before the plugin is loaded again
C30_Witness ==
    /\ ev.op = "load"
    /\ "bookmarks" \in DOMAIN ev.data
    /\ DOMAIN bookmarks = Slots
    /\ \E s \in Slots : bookmarks[s].ch # 0

\* C31: a render that ends has built an item for every slot of the table it
\* read and left the table alone; no preview was thrown: for a missing file
\* the item says so, and for a read that failed it has no preview (null).
C31_PreviewNeverAborts ==
    (ev.op = "render:done") =>
        /\ bookmarks = ev.pre
        /\ DOMAIN ev.items = DOMAIN ev.was
        /\ \E v \in Views : shown[v] = ev.was
        /\ \A s \in DOMAIN ev.items :
              /\ ev.items[s].preview # Thrown
              /\ ev.items[s].missing => ev.items[s].preview = FileNotFound
              /\ ev.items[s].read = "failed" => ev.items[s].preview = NoPreview

\* the read for slot 1 failed and slot 2, behind it, has its preview
C31_Witness ==
    /\ ev.op = "render:done"
    /\ DOMAIN ev.items = Slots
    /\ ev.items[1].read = "failed"
    /\ ev.items[2].preview.kind = "text" /\ ev.items[2].preview.line >= 0

\* C32: a confirmed toggle or remove deletes the binding the user was asked
\* about: when the confirmation is answered with Remove, the slot is still
\* bound (a removal does happen, and only then is one saved and reported),
\* and for a toggle it is bound to the line and column of the cursor the
\* question was about.
C32_ConfirmedDeletesWhatWasAsked ==
    (ev.op = "confirm:yes") =>
        /\ Has(ev.pre, ev.slot)
        /\ ev.of = "set" =>
              /\ ev.pre[ev.slot].line = ev.pos.line
              /\ ev.pre[ev.slot].ch = ev.pos.ch

\* C33: when the write of a mutation has failed, the highlights and the views
\* follow the table in memory all the same: the slots highlighted in the
\* active editor are the slots bound in its file, and every registered view
\* has been asked to render.
HighlightedSlots == UNION {NowMap[l] : l \in DOMAIN NowMap}

C33_FailedWriteStillProjects ==
    (ev.op = "save:failed") =>
        /\ HighlightedSlots = {s \in DOMAIN bookmarks : bookmarks[s].file = ActiveFile}
        /\ In("notify", ev.fx) /\ ev.asked = bookmarkViews

\* C34: with legacy editors, in every state the (line, class) pairs an editor
\* carries are those of its tracked line map: the generic class and one
\* class per slot on each line of the map, and none on an editor without a
\* tracked map.
C34_AppliedIsDerived ==
    \A e \in Editors :
        applied[e] = (IF e \in DOMAIN lineHighlights
                      THEN ClassesOf(lineHighlights[e]) ELSE {})

\* an editor whose classes have been removed one by one, its map dropped,
\* while the other pane is the highlighted one
C34_Witness ==
    /\ ev.op = "active-leaf-change"
    /\ \E x \in ev.calls : x[1] # activeEd /\ x[2] = "remove"
    /\ DOMAIN lineHighlights = {activeEd}
    /\ applied[activeEd] # {}

\* The line of an item of the list whose document has lineCount lines, as
\* the jump of its slot resolves it.
LandingLine(entry, lineCount) == ResolveLine(entry.line, lineCount)

\* C35: for every item of a finished render whose document exists and was
\* read, the line number shown is that of the line a jump to the slot lands
\* on, and the preview is the text of that line, also when the stored line is
\* beyond the last line of the document.
C35_ListShowsLandingLine ==
    (ev.op = "render:done") =>
        \A s \in DOMAIN ev.items :
            (~ev.items[s].missing /\ ev.items[s].read = "ok") =>
                /\ ev.items[s].position = LandingLine(ev.was[s], ev.lc) + 1
                /\ ev.items[s].preview =
                       [kind |-> "text", line |-> LandingLine(ev.was[s], ev.lc)]

\* the same for the items whose stored line is a line of the document
C35_ListShowsStoredLineInRange ==
    (ev.op = "render:done") =>
        \A s \in DOMAIN ev.items :
            (/\ ~ev.items[s].missing /\ ev.items[s].read = "ok"
             /\ ev.was[s].line < ev.lc) =>
                /\ ev.items[s].position = LandingLine(ev.was[s], ev.lc) + 1
                /\ ev.items[s].preview =
                       [kind |-> "text", line |-> LandingLine(ev.was[s], ev.lc)]

\* The step just taken was the return of a set-bookmark or remove-bookmark
\* handler that had asked for a confirmation: the answer was Cancel, or the
\* answer was Remove and the write is done.
ReturnedAfterConfirm ==
    \/ ev.op = "confirm:no"
    \/ ev.op = "save:done" /\ ev.of \in {"set", "remove"} /\ In("notice:removed", ev.fx)

\* C36: a toggle or remove-bookmark handler that waits for its confirmation
\* returns in the end: once the dialog is closed, by a button or otherwise,
\* the request is answered and the handler runs to its end.
C36_ConfirmationEnds == (proc["p1"].pc = "confirm") ~> ReturnedAfterConfirm

\* C37: when a jump has moved the cursor after the file opened, the slot is
\* bound and the cursor is in the file and at the resolved position of the
\* entry the slot has at that moment, whatever was done to the slot while the
\* file opened.
C37_JumpLandsOnCurrentBinding ==
    (ev.op = "jump:opened") =>
        /\ Has(bookmarks, ev.slot)
        /\ ev.file = bookmarks[ev.slot].file
        /\ ev.pos = ResolvePosition([line |-> bookmarks[ev.slot].line,
                                     ch |-> bookmarks[ev.slot].ch], ev.lc, ev.ll)

\* The icons displayed are those of the slots bound in the active document.
RibbonShowsActive ==
    \A s \in Slots :
        ribbonIcons[s] <=> (Has(bookmarks, s) /\ bookmarks[s].file = ActiveFile)

\* C38: in the ribbon variant, when a set-bookmark has completed, a jump has
\* opened its file or a 'file-open' event has been handled, the icon of a slot
\* is displayed if and only if the slot is bound to the active document; with
\* no active document every icon is hidden.
C38_RibbonShowsActiveSlots ==
    (ev.op \in {"save:done", "jump:opened", "file-open"}) =>
        /\ RibbonShowsActive
        /\ ActiveFile = NoFile => \A s \in Slots : ~ribbonIcons[s]

\* The editors whose lines carry highlight classes.
Carrying == {e \in Editors : applied[e] # {}}

\* C39: in the DOM variant, once no deferred callback is pending, at most one
\* editor carries highlight classes, it is the active one, and the last
\* highlighted editor, if there is one, is the active one, whatever happened
\* between the scheduling of a callback and its firing.
C39_OneHighlightedEditor ==
    (timeouts = {}) =>
        /\ Cardinality(Carrying) <= 1
        /\ Carrying \subseteq {activeEd}
        /\ lastHighlightedEditor \in {NoEditor, activeEd}

====
